---- MODULE Spec2Model ----
(***************************************************************************)
(* State-machine model of the text-2-journal authentication and journal    *)
(* core: the secure-auth gateway (supabase/functions/secure-auth),         *)
(* the client auth hook (src/hooks/useAuth.tsx) and the journal service    *)
(* (src/services/journalService.ts).                                       *)
(*                                                                         *)
(* Strings the code inspects character by character (email, password,     *)
(* phone number) are tuples of one-character strings; an absent or empty   *)
(* (falsy) string is the empty tuple.  Time is counted in minutes.         *)
(***************************************************************************)
EXTENDS Integers, Sequences, FiniteSets, TLC

VARIABLES
    now,               \* the wall clock, in minutes
    rate_limits,       \* table rate_limits, keyed by <<identifier, endpoint>>
    account_lockouts,  \* table account_lockouts, keyed by email
    security_events,   \* table security_events (append-only)
    auth_users,        \* accounts held by the identity provider
    handlers,          \* the gateway's in-flight request handlers
    user,              \* useAuth: state user
    session,           \* useAuth: state session
    loading,           \* useAuth: state loading
    mounted,           \* useAuth: the effect's flag mounted
    fetch,             \* useAuth: getInitialSession, its position and result
    signin,            \* useAuth: a signIn call, its position and results
    signout,           \* useAuth: a signOut call, its position and result
    idp_session,       \* the session the identity provider's client holds
    logins,            \* the number of sessions the provider has issued
    signout_requested, \* the sessions current when signOut was requested
    journal_entries,   \* table journal_entries, in the order of creation
    journal,           \* a fetchJournalEntries call, its position and results
    entry_ids,         \* the number of entry ids the table has issued
    journal_photos,    \* table journal_photos: the photo references
    storage,           \* bucket journal-photos: the paths of its objects
    writer,            \* a create/update/delete call, its position and inputs
    form,              \* SignUpForm: a handleSignUp call, its position and inputs
    signup_loading,    \* SignUpForm: the prop loading of the page
    sms_consents       \* table sms_consents

gwVars == <<now, rate_limits, account_lockouts, security_events, auth_users, handlers>>

authVars == <<user, session, loading, mounted, fetch, signin, signout,
              idp_session, logins, signout_requested>>

fetchVars == <<journal_entries, journal>>
writeVars == <<entry_ids, journal_photos, storage, writer>>
journalVars == <<fetchVars, writeVars>>
formVars == <<form, signup_loading, sms_consents>>
nonGwVars == <<authVars, journalVars, formVars>>
nonAuthVars == <<gwVars, journalVars, formVars>>
nonJournalVars == <<gwVars, authVars, formVars>>

vars == <<gwVars, authVars, journalVars, formVars>>

----------------------------------------------------------------------------
(* Bounds of the model *)

MaxTime == 15
MaxOver == 1
MaxEvents == 1
MaxHandlers == 2
LockoutMinutes == 15
MaxLogins == 2
MaxEntries == 2

(* Program constants *)

MaxEmailLen == 254
MinPasswordLen == 8
MinPhoneDigits == 10
MaxPhoneDigits == 15
SigninMaxAttempts == 5
SignupMaxAttempts == 3
WindowMinutes == 15

None == -1

----------------------------------------------------------------------------
(* Characters *)

UpperChars == {"A", "B", "C", "D", "E", "F", "G", "H", "I", "J", "K", "L", "M",
               "N", "O", "P", "Q", "R", "S", "T", "U", "V", "W", "X", "Y", "Z"}
LowerChars == {"a", "b", "c", "d", "e", "f", "g", "h", "i", "j", "k", "l", "m",
               "n", "o", "p", "q", "r", "s", "t", "u", "v", "w", "x", "y", "z"}
DigitChars == {"0", "1", "2", "3", "4", "5", "6", "7", "8", "9"}
SpaceChars == {" "}

\* s.replace(/\D/g, ''): the digits of s, in order
RECURSIVE DigitsOf(_)
DigitsOf(s) ==
    IF s = <<>> THEN <<>>
    ELSE IF Head(s) \in DigitChars THEN <<Head(s)>> \o DigitsOf(Tail(s))
    ELSE DigitsOf(Tail(s))

\* every character of s[a..b] matches [^\s@]
PlainRun(s, a, b) == \A k \in a..b : s[k] \notin SpaceChars /\ s[k] # "@"

\* /^[^\s@]+@[^\s@]+\.[^\s@]+$/.test(email) && email.length <= 254
validateEmail(email) ==
    /\ \E i \in 1..Len(email) : \E j \in 1..Len(email) :
          /\ 1 < i /\ i + 1 < j /\ j < Len(email)
          /\ email[i] = "@" /\ email[j] = "."
          /\ PlainRun(email, 1, i - 1)
          /\ PlainRun(email, i + 1, j - 1)
          /\ PlainRun(email, j + 1, Len(email))
    /\ Len(email) <= MaxEmailLen

validatePassword(password) ==
    LET minLength == Len(password) >= MinPasswordLen
        hasUpper  == \E k \in 1..Len(password) : password[k] \in UpperChars
        hasLower  == \E k \in 1..Len(password) : password[k] \in LowerChars
        hasNumber == \E k \in 1..Len(password) : password[k] \in DigitChars
    IN  minLength /\ hasUpper /\ hasLower /\ hasNumber

validatePhoneNumber(phone) ==
    LET cleaned == DigitsOf(phone)
    IN  Len(cleaned) >= MinPhoneDigits /\ Len(cleaned) <= MaxPhoneDigits

----------------------------------------------------------------------------
(* Request inputs *)

GoodEmail == <<"a", "@", "b", ".", "c">>
BadEmail == <<"a", "@", "b">>
WeakPassword == <<"a", "b", "c">>
StrongPassword == <<"A", "b", "c", "d", "e", "f", "g", "1">>
GoodPhone == <<"5", "5", "5", "-", "1", "2", "3", "-", "4", "5", "6", "7">>
BadPhone == <<"1", "2", "3">>

Actions == {"signin", "signup", "delete", ""}
Emails == {GoodEmail, BadEmail, <<>>}
Passwords == {StrongPassword, WeakPassword, <<>>}
Phones == {GoodPhone, BadPhone, <<>>}
Timezones == {"America/Chicago", ""}
ClientIPs == {<<"1">>}

\* every request body that parses, with the client address of its headers
Requests ==
    [action : Actions, email : Emails, password : Passwords,
     phoneNumber : Phones, timezone : Timezones, clientIP : ClientIPs]

\* the requests of the web client's signIn and of a sign-up without options
ClientRequests ==
    [action : {"signin", "signup"}, email : {GoodEmail},
     password : {StrongPassword}, phoneNumber : {<<>>}, timezone : {""},
     clientIP : ClientIPs]

ValidEmails == {e \in Emails : validateEmail(e)}
Endpoints == {"auth_signin", "auth_signup"}
Handlers == 1..MaxHandlers

\* `${clientIP}:${email}`
Identifier(clientIP, email) == clientIP \o <<":">> \o email

Identifiers == {Identifier(ip, e) : ip \in ClientIPs, e \in ValidEmails}
Keys == Identifiers \X Endpoints

EndpointOf(action) == IF action = "signin" THEN "auth_signin" ELSE "auth_signup"

MaxAttemptsOf_Same(action) == SigninMaxAttempts

\* p_max_attempts: more restrictive for signup
MaxAttemptsOf(action) == IF action = "signin" THEN SigninMaxAttempts ELSE SignupMaxAttempts

----------------------------------------------------------------------------
(* Rate limiter: the database function check_rate_limit *)

NoRow == [attempts |-> 0, window_start |-> 0, max_attempts |-> 0, blocked_until |-> None]

WindowElapsed(row, t, window) == row.attempts = 0 \/ t >= row.window_start + window

\* the row the function persists
RateLimitRow(row, t, max, window) ==
    IF WindowElapsed(row, t, window)
    THEN [attempts |-> 1, window_start |-> t, max_attempts |-> max, blocked_until |-> None]
    ELSE [attempts |-> row.attempts + 1,
          window_start |-> row.window_start,
          max_attempts |-> max,
          blocked_until |-> IF row.attempts + 1 > max
                            THEN row.window_start + window ELSE None]

\* the record the function returns
check_rate_limit(row, t, max, window) ==
    LET r == RateLimitRow(row, t, max, window)
    IN  [allowed |-> r.attempts <= max,
         attempts |-> r.attempts,
         max_attempts |-> max,
         blocked_until |-> r.blocked_until]

NullCheck == [allowed |-> FALSE, attempts |-> 0, max_attempts |-> 0, blocked_until |-> None]

----------------------------------------------------------------------------
(* Gateway responses *)

Response(status, body) == [status |-> status, body |-> body]
ErrorResponse(status, message) == Response(status, [error |-> message])
NoResponse == Response(0, [error |-> ""])

MsgInvalidJson == "Invalid JSON in request body"
MsgInvalidAction == "Invalid action. Must be signin or signup."
MsgInvalidEmail == "Valid email address is required"
MsgPasswordRequired == "Password is required"
MsgWeakPassword == "Password must be at least 8 characters long and contain uppercase, lowercase, and at least one number"
MsgInvalidPhone == "Invalid phone number format"
MsgTooManyAttempts == "Too many attempts. Please try again later."
MsgLocked == "Account temporarily locked due to multiple failed login attempts"
MsgInternal == "Internal server error"
MsgProvider == "User already registered"
MsgSignupsDisabled == "Signups not allowed for this instance"
\* error.message of a failed auth.signUp
ProviderMessages == {MsgProvider, MsgSignupsDisabled}
\* what a collaborator call or a read of missing data throws
Exceptions == {"TypeError", "fetch failed"}

IdleHandler ==
    [pc |-> "idle", action |-> "", email |-> <<>>, password |-> <<>>,
     phoneNumber |-> <<>>, timezone |-> "", clientIP |-> <<>>,
     rateLimitCheck |-> NullCheck, lockoutData |-> None, user |-> <<>>,
     signUpError |-> "", caught |-> "", calls |-> <<>>,
     resp |-> NoResponse]

\* the handler returns `resp`
Respond(h, resp) == [h EXCEPT !.pc = "done", !.resp = resp]

CaughtResponse_Leak(exception) == ErrorResponse(500, exception)

\* the outer catch: the exception is logged, the response is generic
CaughtResponse(exception) == ErrorResponse(500, MsgInternal)

\* the handler leaves its try block by an exception
Catch(h, exception) ==
    [h EXCEPT !.pc = "done", !.caught = exception, !.resp = CaughtResponse(exception)]

ProviderErrorResponse_Generic(message) == ErrorResponse(400, MsgInternal)

\* if (error): the provider's message, status 400
ProviderErrorResponse(message) == ErrorResponse(400, message)

LoggedResponse_Propagate(insertError, resp) ==
    IF insertError THEN ErrorResponse(500, MsgInternal) ELSE resp

\* the result of a security_events insert is not read
LoggedResponse(insertError, resp) == resp

\* the handler awaits a collaborator call
Call(h, call, pc) == [h EXCEPT !.pc = pc, !.calls = Append(h.calls, call)]

----------------------------------------------------------------------------
(* The gateway handler, one action per stretch between two awaits *)

Validation_NoPhone(action, email, password, phoneNumber) ==
    IF action = "" \/ action \notin {"signin", "signup"}
    THEN ErrorResponse(400, MsgInvalidAction)
    ELSE IF email = <<>> \/ ~validateEmail(email)
    THEN ErrorResponse(400, MsgInvalidEmail)
    ELSE IF password = <<>>
    THEN ErrorResponse(400, MsgPasswordRequired)
    ELSE IF action = "signup" /\ ~validatePassword(password)
    THEN ErrorResponse(400, MsgWeakPassword)
    ELSE NoResponse

Validation_StrengthAlways(action, email, password, phoneNumber) ==
    IF action = "" \/ action \notin {"signin", "signup"}
    THEN ErrorResponse(400, MsgInvalidAction)
    ELSE IF email = <<>> \/ ~validateEmail(email)
    THEN ErrorResponse(400, MsgInvalidEmail)
    ELSE IF password = <<>>
    THEN ErrorResponse(400, MsgPasswordRequired)
    ELSE IF ~validatePassword(password)
    THEN ErrorResponse(400, MsgWeakPassword)
    ELSE IF phoneNumber # <<>> /\ ~validatePhoneNumber(phoneNumber)
    THEN ErrorResponse(400, MsgInvalidPhone)
    ELSE NoResponse

\* the input validation: the first failing check's response, NoResponse when
\* every check passes
Validation(action, email, password, phoneNumber) ==
    IF action = "" \/ action \notin {"signin", "signup"}
    THEN ErrorResponse(400, MsgInvalidAction)
    ELSE IF email = <<>> \/ ~validateEmail(email)
    THEN ErrorResponse(400, MsgInvalidEmail)
    ELSE IF password = <<>>
    THEN ErrorResponse(400, MsgPasswordRequired)
    ELSE IF action = "signup" /\ ~validatePassword(password)
    THEN ErrorResponse(400, MsgWeakPassword)
    ELSE IF phoneNumber # <<>> /\ ~validatePhoneNumber(phoneNumber)
    THEN ErrorResponse(400, MsgInvalidPhone)
    ELSE NoResponse

\* the request body does not parse
ReceiveInvalidJson(h) ==
    /\ handlers[h].pc = "idle"
    /\ handlers' = [handlers EXCEPT ![h] =
                        Respond(IdleHandler, ErrorResponse(400, MsgInvalidJson))]
    /\ UNCHANGED <<now, rate_limits, account_lockouts, security_events, auth_users>>
    /\ UNCHANGED nonGwVars

\* the request body parses: destructuring, getClientIP, input validation
Receive(h, requests) ==
    /\ handlers[h].pc = "idle"
    /\ \E r \in requests :
          LET req == [IdleHandler EXCEPT !.action = r.action, !.email = r.email,
                                         !.password = r.password,
                                         !.phoneNumber = r.phoneNumber,
                                         !.timezone = r.timezone,
                                         !.clientIP = r.clientIP]
              failed == Validation(r.action, r.email, r.password, r.phoneNumber)
          IN  handlers' = [handlers EXCEPT ![h] =
                              IF failed # NoResponse
                              THEN Respond(req, failed)
                              ELSE [req EXCEPT !.pc = "rate_limit"]]
    /\ UNCHANGED <<now, rate_limits, account_lockouts, security_events, auth_users>>
    /\ UNCHANGED nonGwVars

RateLimitKey(h) ==
    <<Identifier(handlers[h].clientIP, handlers[h].email), EndpointOf(handlers[h].action)>>

RpcCheckRateLimit_Lenient(key, max) ==
    rate_limits' = [rate_limits EXCEPT ![key] =
                        RateLimitRow(rate_limits[key], now, max + 1, WindowMinutes)]

RpcCheckRateLimit_ReadOnly(key, max) == UNCHANGED rate_limits

\* the effect of rpc('check_rate_limit', ...) on the table
RpcCheckRateLimit(key, max) ==
    rate_limits' = [rate_limits EXCEPT ![key] =
                        RateLimitRow(rate_limits[key], now, max, WindowMinutes)]

AfterRateLimit_Proxy(action, allowed) ==
    IF ~allowed THEN "log_rate_limit" ELSE "signup"

\* where the handler goes once the rate limiter has answered
AfterRateLimit(action, allowed) ==
    IF ~allowed THEN "log_rate_limit"
    ELSE IF action = "signin" THEN "lockout"
    ELSE "signup"

RateLimitUnavailable_FailOpen(h, exception) ==
    [h EXCEPT !.pc = AfterRateLimit(h.action, TRUE)]

\* the rate limiter gave no result: the exception reaches the outer catch
RateLimitUnavailable(h, exception) == Catch(h, exception)

\* rpc('check_rate_limit') and the branch on rateLimitCheck.allowed
RateLimitGate(h) ==
    /\ handlers[h].pc = "rate_limit"
    /\ LET me == handlers[h]
           key == RateLimitKey(h)
           max == MaxAttemptsOf(me.action)
           row == RateLimitRow(rate_limits[key], now, max, WindowMinutes)
           res == check_rate_limit(rate_limits[key], now, max, WindowMinutes)
           called == [Call(me, "rpc:check_rate_limit", "rate_limit")
                          EXCEPT !.rateLimitCheck = res]
       IN  \/ \* the call yields data: null and reading .allowed throws, or
              \* the call itself throws
              /\ \E exception \in Exceptions :
                    handlers' = [handlers EXCEPT ![h] =
                       RateLimitUnavailable(
                          Call(me, "rpc:check_rate_limit", "rate_limit"), exception)]
              /\ UNCHANGED rate_limits
           \/ /\ row.attempts <= max + MaxOver
              /\ RpcCheckRateLimit(key, max)
              /\ handlers' = [handlers EXCEPT ![h] =
                     [called EXCEPT !.pc = AfterRateLimit(me.action, res.allowed)]]
    /\ UNCHANGED <<now, account_lockouts, security_events, auth_users>>
    /\ UNCHANGED nonGwVars

RateLimitEvent_Low(h) ==
    [event_type |-> "rate_limit_exceeded",
     identifier |-> Identifier(handlers[h].clientIP, handlers[h].email),
     details |-> [endpoint |-> EndpointOf(handlers[h].action),
                  ip |-> handlers[h].clientIP,
                  email |-> handlers[h].email,
                  blocked_until |-> handlers[h].rateLimitCheck.blocked_until],
     severity |-> "low"]

RateLimitEvent(h) ==
    [event_type |-> "rate_limit_exceeded",
     identifier |-> Identifier(handlers[h].clientIP, handlers[h].email),
     details |-> [endpoint |-> EndpointOf(handlers[h].action),
                  ip |-> handlers[h].clientIP,
                  email |-> handlers[h].email,
                  blocked_until |-> handlers[h].rateLimitCheck.blocked_until],
     severity |-> "medium"]

\* the rate limiter rejected: log the security event, answer 429
LogRateLimit(h) ==
    /\ handlers[h].pc = "log_rate_limit"
    /\ \E insertError \in BOOLEAN :
          /\ IF insertError
             THEN UNCHANGED security_events
             ELSE /\ Len(security_events) < MaxEvents
                  /\ security_events' = Append(security_events, RateLimitEvent(h))
          /\ handlers' = [handlers EXCEPT ![h] =
                 Respond(Call(handlers[h], "insert:security_events", "log_rate_limit"),
                         LoggedResponse(insertError,
                            Response(429, [error |-> MsgTooManyAttempts,
                                           blocked_until |->
                                              handlers[h].rateLimitCheck.blocked_until])))]
    /\ UNCHANGED <<now, rate_limits, account_lockouts, auth_users>>
    /\ UNCHANGED nonGwVars

RateLimitInfo_Limit(h) ==
    [attempts |-> handlers[h].rateLimitCheck.max_attempts,
     max_attempts |-> handlers[h].rateLimitCheck.max_attempts]

RateLimitInfo(h) ==
    [attempts |-> handlers[h].rateLimitCheck.attempts,
     max_attempts |-> handlers[h].rateLimitCheck.max_attempts]

\* lockoutData?.locked_until && new Date(lockoutData.locked_until) > new Date()
Locked(lockoutData, t) == lockoutData # None /\ lockoutData > t

\* sign-in: the account_lockouts lookup, then the 423 or the acknowledgment
LockoutGate(h) ==
    /\ handlers[h].pc = "lockout"
    /\ \E lockoutData \in {account_lockouts[handlers[h].email], None} :
          \* None: no row, a null locked_until, or a failed query (data: null)
          handlers' = [handlers EXCEPT ![h] =
              Respond([Call(handlers[h], "select:account_lockouts", "lockout")
                          EXCEPT !.lockoutData = lockoutData],
                      IF Locked(lockoutData, now)
                      THEN Response(423, [error |-> MsgLocked,
                                          locked_until |-> lockoutData])
                      ELSE Response(200, [validation_passed |-> TRUE,
                                          message |-> "Security validation passed",
                                          rate_limit |-> RateLimitInfo(h)]))]
    /\ UNCHANGED <<now, rate_limits, account_lockouts, security_events, auth_users>>
    /\ UNCHANGED nonGwVars

\* options.data of auth.signUp
Metadata(phoneNumber, timezone) ==
    [phone_number |-> phoneNumber, timezone |-> timezone]

\* sign-up: auth.signUp and the branch on its result
SignUp(h) ==
    /\ handlers[h].pc = "signup"
    /\ LET me == Call(handlers[h], "auth.signUp", "signup")
       IN  \/ \* the provider returns an error
              /\ \E message \in ProviderMessages :
                    handlers' = [handlers EXCEPT ![h] =
                       Respond([me EXCEPT !.signUpError = message],
                               ProviderErrorResponse(message))]
              /\ UNCHANGED auth_users
           \/ \* the call throws
              /\ handlers' = [handlers EXCEPT ![h] = Catch(me, "fetch failed")]
              /\ UNCHANGED auth_users
           \/ \* the provider creates the account and returns its user
              /\ \A u \in auth_users : u.email # me.email
              /\ auth_users' = auth_users \cup
                     {[email |-> me.email,
                       data |-> Metadata(me.phoneNumber, me.timezone)]}
              /\ handlers' = [handlers EXCEPT ![h] =
                     [me EXCEPT !.pc = "log_signup", !.user = me.email]]
           \/ \* the provider returns neither an error nor a user
              /\ handlers' = [handlers EXCEPT ![h] =
                     Respond(me, Response(200, [data |-> [user |-> <<>>],
                                                rate_limit |-> RateLimitInfo(h)]))]
              /\ UNCHANGED auth_users
    /\ UNCHANGED <<now, rate_limits, account_lockouts, security_events>>
    /\ UNCHANGED nonGwVars

SignupEvent(h) ==
    [event_type |-> "user_signup",
     user_id |-> handlers[h].user,
     identifier |-> handlers[h].email,
     details |-> [ip |-> handlers[h].clientIP,
                  has_phone |-> handlers[h].phoneNumber # <<>>,
                  timezone |-> IF handlers[h].timezone # ""
                               THEN handlers[h].timezone ELSE "UTC"],
     severity |-> "low"]

\* sign-up created a user: log the security event, answer 200
LogSignup(h) ==
    /\ handlers[h].pc = "log_signup"
    /\ \E insertError \in BOOLEAN :
          /\ IF insertError
             THEN UNCHANGED security_events
             ELSE /\ Len(security_events) < MaxEvents
                  /\ security_events' = Append(security_events, SignupEvent(h))
          /\ handlers' = [handlers EXCEPT ![h] =
                 Respond(Call(handlers[h], "insert:security_events", "log_signup"),
                         LoggedResponse(insertError,
                            Response(200, [data |-> [user |-> handlers[h].user],
                                           rate_limit |-> RateLimitInfo(h)])))]
    /\ UNCHANGED <<now, rate_limits, account_lockouts, auth_users>>
    /\ UNCHANGED nonGwVars

\* the response has been sent: the handler's slot serves the next request
Finish(h) ==
    /\ handlers[h].pc = "done"
    /\ handlers' = [handlers EXCEPT ![h] = IdleHandler]
    /\ UNCHANGED <<now, rate_limits, account_lockouts, security_events, auth_users>>
    /\ UNCHANGED nonGwVars

\* the steps of a handler after its request has been received
Handle(h) ==
    \/ RateLimitGate(h)
    \/ LogRateLimit(h)
    \/ LockoutGate(h)
    \/ SignUp(h)
    \/ LogSignup(h)
    \/ Finish(h)

----------------------------------------------------------------------------
(* The gateway's environment *)

TickSteps == {WindowMinutes \div 3, WindowMinutes}

Tick ==
    /\ \E d \in TickSteps : now + d <= MaxTime /\ now' = now + d
    /\ UNCHANGED <<rate_limits, account_lockouts, security_events, auth_users, handlers>>
    /\ UNCHANGED nonGwVars

\* the failure tracker locks an account, or a lock is cleared
SetLockout ==
    /\ \E e \in ValidEmails, until \in {None, now + LockoutMinutes} :
          /\ account_lockouts[e] # until
          /\ account_lockouts' = [account_lockouts EXCEPT ![e] = until]
    /\ UNCHANGED <<now, rate_limits, security_events, auth_users, handlers>>
    /\ UNCHANGED nonGwVars

GatewayInit ==
    /\ now = 0
    /\ rate_limits = [k \in Keys |-> NoRow]
    /\ account_lockouts = [e \in ValidEmails |-> None]
    /\ security_events = <<>>
    /\ auth_users = {}
    /\ handlers = [h \in Handlers |-> IdleHandler]

----------------------------------------------------------------------------
(* The client auth hook useAuth and the identity provider's client.  A null *)
(* user is "", a null session NoSession, a null error "".                   *)

NoSession == [user |-> "", login |-> 0]

\* the session the provider issues for its n-th sign-in
SessionOf(n) == [user |-> "u1", login |-> n]

AuthEvents == {"SIGNED_IN", "SIGNED_OUT", "TOKEN_REFRESHED", "USER_UPDATED",
               "INITIAL_SESSION"}

\* what the state setters of one render pass leave: user, session, loading
AuthState(u, s, l) == [user |-> u, session |-> s, loading |-> l]

clearAuthState_KeepUser(st) == [st EXCEPT !.session = NoSession]

\* clearAuthState: setSession(null); setUser(null)
clearAuthState(st) == [st EXCEPT !.session = NoSession, !.user = ""]

SetAuthState(st) ==
    /\ user' = st.user
    /\ session' = st.session
    /\ loading' = st.loading

CurrentAuthState == AuthState(user, session, loading)

InitialSessionSettled_ErrorKeepsLoading(st, isMounted, result) ==
    IF result.kind \in {"error", "throws"}
    THEN IF isMounted THEN clearAuthState(st) ELSE st
    ELSE IF ~isMounted THEN st
    ELSE IF result.session.user # ""
    THEN AuthState(result.session.user, result.session, FALSE)
    ELSE [clearAuthState(st) EXCEPT !.loading = FALSE]

\* the state after getInitialSession has settled with `result`
InitialSessionSettled(st, isMounted, result) ==
    IF result.kind \in {"error", "throws"}
    THEN IF isMounted THEN [clearAuthState(st) EXCEPT !.loading = FALSE] ELSE st
    ELSE IF ~isMounted THEN st
    ELSE IF result.session.user # ""
    THEN AuthState(result.session.user, result.session, FALSE)
    ELSE [clearAuthState(st) EXCEPT !.loading = FALSE]

AuthStateChanged_AnyEvent(st, isMounted, event, s) ==
    IF ~isMounted THEN st
    ELSE IF event = "SIGNED_OUT" \/ s = NoSession
    THEN [clearAuthState(st) EXCEPT !.loading = FALSE]
    ELSE IF s.user # ""
    THEN AuthState(s.user, s, FALSE)
    ELSE [clearAuthState(st) EXCEPT !.loading = FALSE]

AuthStateChanged_Unguarded(st, isMounted, event, s) ==
    IF event = "SIGNED_OUT" \/ s = NoSession
    THEN [clearAuthState(st) EXCEPT !.loading = FALSE]
    ELSE IF event = "SIGNED_IN" \/ event = "TOKEN_REFRESHED"
    THEN IF s.user # ""
         THEN AuthState(s.user, s, FALSE)
         ELSE [clearAuthState(st) EXCEPT !.loading = FALSE]
    ELSE st

\* the state after the onAuthStateChange callback has run
AuthStateChanged(st, isMounted, event, s) ==
    IF ~isMounted THEN st
    ELSE IF event = "SIGNED_OUT" \/ s = NoSession
    THEN [clearAuthState(st) EXCEPT !.loading = FALSE]
    ELSE IF event = "SIGNED_IN" \/ event = "TOKEN_REFRESHED"
    THEN IF s.user # ""
         THEN AuthState(s.user, s, FALSE)
         ELSE [clearAuthState(st) EXCEPT !.loading = FALSE]
    ELSE st

\* what ProtectedRoute renders for the values useAuth returns
ProtectedRoute(u, s, l) ==
    IF l THEN "Loading..."
    ELSE IF u = "" \/ s = NoSession THEN "null"
    ELSE "children"

NoResult == [error |-> "pending"]
IdleSignOut == [pc |-> "idle", result |-> NoResult]

FetchPending == [pc |-> "pending", kind |-> "", session |-> NoSession]

\* supabase.auth.getSession() resolves or rejects
GetSession ==
    /\ fetch.pc = "pending"
    /\ \E kind \in {"session", "error", "throws"} :
          fetch' = [pc |-> "resolved", kind |-> kind,
                    session |-> IF kind = "session" THEN idp_session ELSE NoSession]
    /\ UNCHANGED <<user, session, loading, mounted, signin, signout, idp_session,
                   logins, signout_requested>>
    /\ UNCHANGED nonAuthVars

\* getInitialSession continues after its await
GetInitialSession ==
    /\ fetch.pc = "resolved"
    /\ fetch' = [fetch EXCEPT !.pc = "settled"]
    /\ SetAuthState(InitialSessionSettled(CurrentAuthState, mounted, fetch))
    /\ UNCHANGED <<mounted, signin, signout, idp_session, logins, signout_requested>>
    /\ UNCHANGED nonAuthVars

\* the provider's client notifies the subscriber of the session it holds
OnAuthStateChange ==
    /\ \E event \in AuthEvents :
          /\ event = "SIGNED_OUT" => idp_session = NoSession
          /\ event \in {"SIGNED_IN", "TOKEN_REFRESHED", "USER_UPDATED"} =>
                idp_session # NoSession
          /\ SetAuthState(AuthStateChanged(CurrentAuthState, mounted, event, idp_session))
    /\ UNCHANGED <<mounted, fetch, signin, signout, idp_session, logins,
                   signout_requested>>
    /\ UNCHANGED nonAuthVars

\* the provider ends the session on its own (expiry, revocation, another tab)
SessionEnds ==
    /\ idp_session # NoSession
    /\ idp_session' = NoSession
    /\ SetAuthState(AuthStateChanged(CurrentAuthState, mounted, "SIGNED_OUT", NoSession))
    /\ UNCHANGED <<mounted, fetch, signin, signout, logins, signout_requested>>
    /\ UNCHANGED nonAuthVars

\* the effect's cleanup
Unmount ==
    /\ mounted
    /\ mounted' = FALSE
    /\ UNCHANGED <<user, session, loading, fetch, signin, signout, idp_session,
                   logins, signout_requested>>
    /\ UNCHANGED nonAuthVars

\* signOut up to its await: clearAuthState(), then the remote call is issued
SignOutStart ==
    /\ mounted
    /\ signout.pc = "idle"
    /\ signout' = [pc |-> "remote", result |-> NoResult]
    /\ SetAuthState(clearAuthState(CurrentAuthState))
    /\ signout_requested' =
          signout_requested \cup ({session.login, idp_session.login} \ {0})
    /\ UNCHANGED <<mounted, fetch, signin, idp_session, logins>>
    /\ UNCHANGED nonAuthVars

\* supabase.auth.signOut() returns: the provider drops the session and
\* notifies SIGNED_OUT, or it fails and keeps the session
SignOutReturns ==
    /\ signout.pc = "remote"
    /\ signout' = [pc |-> "done", result |-> [error |-> ""]]
    /\ \/ /\ idp_session' = NoSession
          /\ SetAuthState(AuthStateChanged(CurrentAuthState, mounted,
                                           "SIGNED_OUT", NoSession))
       \/ \* { error } or an exception: nothing is restored
          UNCHANGED <<idp_session, user, session, loading>>
    /\ UNCHANGED <<mounted, fetch, signin, logins, signout_requested>>
    /\ UNCHANGED nonAuthVars

\* the caller has taken signOut's result
SignOutFinish ==
    /\ signout.pc = "done"
    /\ signout' = IdleSignOut
    /\ UNCHANGED <<user, session, loading, mounted, fetch, signin, idp_session,
                   logins, signout_requested>>
    /\ UNCHANGED nonAuthVars

\* a null response body
NoData == [null |-> TRUE]

\* the answers the gateway gives a sign-in, and two bodies of another
\* deployment that answer 200 without acknowledging the validation
SigninReplies ==
    { Response(200, [validation_passed |-> TRUE,
                     message |-> "Security validation passed"]),
      Response(200, [validation_passed |-> FALSE]),
      Response(200, [success |-> TRUE]),
      ErrorResponse(400, MsgInvalidEmail),
      ErrorResponse(429, MsgTooManyAttempts),
      ErrorResponse(423, MsgLocked),
      ErrorResponse(500, MsgInternal) }

\* supabase.functions.invoke: { data, error } of a response
FunctionsInvoke(resp) ==
    IF resp.status >= 200 /\ resp.status < 300
    THEN [data |-> resp.body, error |-> ""]
    ELSE [data |-> NoData, error |-> "FunctionsHttpError"]

InvokeResults ==
    {FunctionsInvoke(resp) : resp \in SigninReplies}
        \cup {[data |-> NoData, error |-> "FunctionsFetchError"],
              [data |-> NoData, error |-> ""]}

\* validationData?.validation_passed
validation_passed(validationData) ==
    /\ validationData # NoData
    /\ "validation_passed" \in DOMAIN validationData
    /\ validationData.validation_passed

SignInGate_NoValidation(validation) ==
    IF validation.error # "" THEN "return_error" ELSE "password"

\* where signIn goes once the gateway call has returned
SignInGate(validation) ==
    IF validation.error # "" THEN "return_error"
    ELSE IF ~validation_passed(validation.data) THEN "validation_failed"
    ELSE "password"

SignInResult(data, error) == [data |-> data, error |-> error]
NoValidation == [data |-> NoData, error |-> "pending"]
\* authError.message of a failed signInWithPassword
AuthErrors == {"Invalid login credentials", "Email not confirmed"}
\* how the track-login-failure call ends: data, { error }, a rejection
TrackingOutcomes == {"ok", "error", "rejects"}

IdleSignIn ==
    [pc |-> "idle", validation |-> NoValidation, calls |-> <<>>,
     authError |-> "", tracking |-> "",
     result |-> SignInResult(NoSession, "pending")]

TrackedResult_Surfaced(authError, tracking) ==
    SignInResult(NoSession, IF tracking = "ok" THEN authError ELSE tracking)

\* signIn's result after the tracking call, whose outcome is not read
TrackedResult(authError, tracking) == SignInResult(NoSession, authError)

SignInReturn(me, result) == [me EXCEPT !.pc = "done", !.result = result]

\* signIn up to its first await
SignInStart ==
    /\ mounted
    /\ signin.pc = "idle"
    /\ signin' = [IdleSignIn EXCEPT !.pc = "secure_auth",
                                    !.calls = <<"invoke:secure-auth">>]
    /\ UNCHANGED <<user, session, loading, mounted, fetch, signout, idp_session,
                   logins, signout_requested>>
    /\ UNCHANGED nonAuthVars

\* the gateway call returns or throws
SecureAuthReturns ==
    /\ signin.pc = "secure_auth"
    /\ \/ signin' = SignInReturn(signin, SignInResult(NoSession, "Unknown error"))
       \/ \E validation \in InvokeResults :
             LET me == [signin EXCEPT !.validation = validation]
                 gate == SignInGate(validation)
             IN  signin' =
                    IF gate = "return_error"
                    THEN SignInReturn(me, SignInResult(NoSession, validation.error))
                    ELSE IF gate = "validation_failed"
                    THEN SignInReturn(me, SignInResult(NoSession,
                                                       "Security validation failed"))
                    ELSE [me EXCEPT !.pc = "password",
                                    !.calls = Append(me.calls,
                                                     "auth.signInWithPassword")]
    /\ UNCHANGED <<user, session, loading, mounted, fetch, signout, idp_session,
                   logins, signout_requested>>
    /\ UNCHANGED nonAuthVars

\* supabase.auth.signInWithPassword returns or throws
SignInWithPassword ==
    /\ signin.pc = "password"
    /\ \/ \* the provider issues a session and notifies SIGNED_IN
          /\ logins < MaxLogins
          /\ logins' = logins + 1
          /\ idp_session' = SessionOf(logins + 1)
          /\ SetAuthState(AuthStateChanged(CurrentAuthState, mounted, "SIGNED_IN",
                                           SessionOf(logins + 1)))
          /\ signin' = SignInReturn(signin, SignInResult(SessionOf(logins + 1), ""))
       \/ \* authError: the failure is reported to track-login-failure
          /\ \E authError \in AuthErrors :
                signin' = [signin EXCEPT !.pc = "track",
                              !.authError = authError,
                              !.calls = Append(signin.calls,
                                               "invoke:track-login-failure")]
          /\ UNCHANGED <<user, session, loading, idp_session, logins>>
       \/ /\ signin' = SignInReturn(signin, SignInResult(NoSession, "Unknown error"))
          /\ UNCHANGED <<user, session, loading, idp_session, logins>>
    /\ UNCHANGED <<mounted, fetch, signout, signout_requested>>
    /\ UNCHANGED nonAuthVars

\* the tracking call resolves, or rejects into .catch(console.error)
TrackLoginFailure ==
    /\ signin.pc = "track"
    /\ \E tracking \in TrackingOutcomes :
          signin' = SignInReturn([signin EXCEPT !.tracking = tracking],
                                 TrackedResult(signin.authError, tracking))
    /\ UNCHANGED <<user, session, loading, mounted, fetch, signout, idp_session,
                   logins, signout_requested>>
    /\ UNCHANGED nonAuthVars

\* the caller has taken signIn's result
SignInFinish ==
    /\ signin.pc = "done"
    /\ signin' = IdleSignIn
    /\ UNCHANGED <<user, session, loading, mounted, fetch, signout, idp_session,
                   logins, signout_requested>>
    /\ UNCHANGED nonAuthVars

StoredSessions == {NoSession, SessionOf(1)}

\* the hook has mounted: its effect has subscribed and started the fetch
AuthInit ==
    /\ user = ""
    /\ session = NoSession
    /\ loading = TRUE
    /\ mounted = TRUE
    /\ fetch = FetchPending
    /\ signin = IdleSignIn
    /\ signout = IdleSignOut
    /\ idp_session \in StoredSessions
    /\ logins = idp_session.login
    /\ signout_requested = {}

----------------------------------------------------------------------------
(* The journal service and the content cipher.  A text is a tuple of        *)
(* characters; a ciphertext carries a marker and the key's owner in front   *)
(* of the text it hides.                                                    *)

Users == {"u1", "u2"}
CipherMark == "enc:"

encrypt(plaintext, userId) == <<CipherMark, userId>> \o plaintext

Decrypted(value) == [ok |-> TRUE, value |-> value]
DecryptFailed == [ok |-> FALSE, value |-> <<>>]

\* a value that was never encrypted comes back unchanged; a ciphertext of
\* another key or a damaged one fails
decrypt(ciphertext, userId) ==
    IF ciphertext # <<>> /\ ciphertext[1] = CipherMark
    THEN IF Len(ciphertext) >= 2 /\ ciphertext[2] = userId
         THEN Decrypted(SubSeq(ciphertext, 3, Len(ciphertext)))
         ELSE DecryptFailed
    ELSE Decrypted(ciphertext)

Secret == <<"h", "i">>
Legacy == <<"o", "l", "d">>
Corrupted == <<CipherMark>>

\* what a row of user u can hold in title or content
StoredTexts(u) == {encrypt(Secret, u), Legacy, Corrupted}

Row(id, user_id, title, content, source, entry_date) ==
    [id |-> id, user_id |-> user_id, title |-> title, content |-> content,
     source |-> source, entry_date |-> entry_date, tags |-> <<>>, created_at |-> 0]

RECURSIVE SelectRows(_, _)
\* .eq('user_id', userId).order('created_at', { ascending: false }) over the
\* table kept in the order of creation
SelectRows(rows, userId) ==
    IF rows = <<>> THEN <<>>
    ELSE LET rest == SelectRows(SubSeq(rows, 1, Len(rows) - 1), userId)
             last == rows[Len(rows)]
         IN  IF last.user_id = userId THEN <<last>> \o rest ELSE rest

ProcessEntry_SplitFallback(entry, userId) ==
    LET decryptedContent == decrypt(entry.content, userId)
        decryptedTitle == decrypt(entry.title, userId)
    IN  Row(entry.id, entry.user_id,
            IF decryptedTitle.ok THEN decryptedTitle.value ELSE entry.title,
            IF decryptedContent.ok THEN decryptedContent.value ELSE entry.content,
            entry.source, entry.entry_date)

ProcessEntry_DropOnError(entry, userId) ==
    LET decryptedContent == decrypt(entry.content, userId)
        decryptedTitle == decrypt(entry.title, userId)
    IN  IF decryptedContent.ok /\ decryptedTitle.ok
        THEN Row(entry.id, entry.user_id, decryptedTitle.value,
                 decryptedContent.value, entry.source, entry.entry_date)
        ELSE Row(entry.id, entry.user_id, <<>>, <<>>, entry.source, entry.entry_date)

\* the callback of data.map: the try block, and its catch
ProcessEntry(entry, userId) ==
    LET decryptedContent == decrypt(entry.content, userId)
        decryptedTitle == decrypt(entry.title, userId)
    IN  IF decryptedContent.ok /\ decryptedTitle.ok
        THEN Row(entry.id, entry.user_id, decryptedTitle.value,
                 decryptedContent.value, entry.source, entry.entry_date)
        ELSE Row(entry.id, entry.user_id, entry.title, entry.content,
                 entry.source, entry.entry_date)

RECURSIVE TrimStart(_)
TrimStart(text) ==
    IF text # <<>> /\ Head(text) \in SpaceChars THEN TrimStart(Tail(text)) ELSE text

RECURSIVE TrimEnd(_)
TrimEnd(text) ==
    IF text # <<>> /\ text[Len(text)] \in SpaceChars
    THEN TrimEnd(SubSeq(text, 1, Len(text) - 1))
    ELSE text

\* String.prototype.trim
Trim(text) == TrimEnd(TrimStart(text))

\* Instants and wall clocks are hours counted from 2023-12-31T00:00Z, calendar
\* dates are days counted from 2023-12-31.
HoursPerDay == 24

\* the offset from UTC of a zone, in hours
OffsetOf(timeZone) ==
    CASE timeZone = "America/Los_Angeles" -> 0 - 8
      [] OTHER -> 0

\* the time zone of the runtime the service executes in
RuntimeTimezones == {"UTC", "America/Los_Angeles"}

\* table profiles, column timezone; "" where none is stored
profiles == [u \in Users |-> IF u = "u1" THEN "America/Los_Angeles" ELSE ""]

\* now.toLocaleString("en-US", { timeZone }): the wall clock of the zone
toLocaleString(instant, timeZone) == instant + OffsetOf(timeZone)

\* new Date(string) of a string without a zone: read as the runtime's local time
ParseLocal(wallClock, runtimeTimezone) == wallClock - OffsetOf(runtimeTimezone)

\* toISOString().split('T')[0]: the UTC calendar date
IsoDate(instant) == instant \div HoursPerDay

\* the entryDate of createJournalEntry
EntryDate(instant, userTimezone, runtimeTimezone) ==
    IsoDate(ParseLocal(toLocaleString(instant, userTimezone), runtimeTimezone))

\* 2024-01-01T06:00Z
Instants == {30}
\* the content a call is given: of a new entry, of an update
Plaintexts == {<<" ", "h", "i", " ">>}
Revisions == {<<"y", "o", " ">>}
Titles == {<<"t", " ">>}
PhotoLists == {<<>>, <<"p1">>}

\* a photo URL is the tuple of its path segments; new URL('') throws
PhotoUrl(fileName) == <<"storage", "journal-photos", fileName>>
Unparsable == <<>>
\* pathParts[pathParts.length - 1]
FileName(photoUrl) == photoUrl[Len(photoUrl)]
RemovedPhotoLists == {<<>>, <<PhotoUrl("p1")>>}

\* an optional argument: undefined, or a value
Undefined == [defined |-> FALSE, value |-> <<>>]
Defined(value) == [defined |-> TRUE, value |-> value]

PhotoRef(entry_id, file_name) == [entry_id |-> entry_id, file_name |-> file_name]
\* `${userId}/${id}/${fileName}`
PhotoPath(userId, id, fileName) == <<userId, id, fileName>>

IdleWriter ==
    [pc |-> "idle", op |-> "", userId |-> "", id |-> 0, content |-> <<>>,
     title |-> <<>>, photos |-> <<>>, removedPhotos |-> <<>>,
     userTimezone |-> "", instant |-> 0, runtime |-> "", error |-> "",
     tags |-> <<>>, updateData |-> [content |-> <<>>], listed |-> <<>>,
     calls |-> <<>>]

Throw(w, error) == [w EXCEPT !.pc = "failed", !.error = error]

IdleJournal ==
    [pc |-> "idle", userId |-> "", data |-> <<>>, result |-> <<>>]

\* a row reaches the table: written by this service, by the SMS intake, or
\* left from before encryption, intact or damaged
StoreEntry ==
    /\ entry_ids < MaxEntries
    /\ entry_ids' = entry_ids + 1
    /\ \E u \in Users : \E title, content \in StoredTexts(u) :
          journal_entries' = Append(journal_entries,
              Row(entry_ids + 1, u, title, content, "sms", 0))
    /\ UNCHANGED <<journal, journal_photos, storage, writer>>
    /\ UNCHANGED nonJournalVars

\* fetchJournalEntries up to the return of its query
FetchJournalEntries ==
    /\ journal.pc = "idle"
    /\ \E userId \in Users \cup {""} :
          IF userId = ""
          THEN journal' = [IdleJournal EXCEPT !.pc = "done"]
          ELSE \/ \* if (error) throw error
                  journal' = [IdleJournal EXCEPT !.pc = "failed", !.userId = userId]
               \/ journal' = [IdleJournal EXCEPT !.pc = "process",
                                 !.userId = userId,
                                 !.data = SelectRows(journal_entries, userId)]
    /\ UNCHANGED journal_entries
    /\ UNCHANGED writeVars
    /\ UNCHANGED nonJournalVars

\* Promise.all(data.map(...)) and the filter of nulls
ProcessEntries ==
    /\ journal.pc = "process"
    /\ journal' = [journal EXCEPT !.pc = "done",
                      !.result = [i \in 1..Len(journal.data) |->
                                     ProcessEntry(journal.data[i], journal.userId)]]
    /\ UNCHANGED journal_entries
    /\ UNCHANGED writeVars
    /\ UNCHANGED nonJournalVars

\* the caller has taken the entries or the error
FetchReturned ==
    /\ journal.pc \in {"done", "failed"}
    /\ journal' = IdleJournal
    /\ UNCHANGED journal_entries
    /\ UNCHANGED writeVars
    /\ UNCHANGED nonJournalVars

\* createJournalEntry up to the profile lookup: the checks of its inputs
CreateJournalEntry ==
    /\ writer.pc = "idle"
    /\ entry_ids < MaxEntries
    /\ \E userId \in Users \cup {""}, content \in Plaintexts, title \in Titles,
          photos \in PhotoLists :
          LET me == [IdleWriter EXCEPT !.op = "create", !.userId = userId,
                                       !.content = content, !.title = title,
                                       !.photos = photos]
          IN  IF userId = ""
              THEN writer' = Throw(me, "User not authenticated")
              ELSE \/ \* validateEntryContent or validatePhotos throws
                      writer' = Throw(me, "validation")
                   \/ writer' = [me EXCEPT !.pc = "profile"]
    /\ UNCHANGED <<entry_ids, journal_photos, storage>>
    /\ UNCHANGED fetchVars
    /\ UNCHANGED nonJournalVars

\* userProfile?.timezone || 'UTC'
UserTimezone(timezone) == IF timezone # "" THEN timezone ELSE "UTC"

\* the profile lookup returns the row, or data: null
CreateProfile ==
    /\ writer.pc = "profile"
    /\ \E timezone \in {profiles[writer.userId], ""} :
          writer' = [writer EXCEPT !.pc = "insert",
                                   !.userTimezone = UserTimezone(timezone)]
    /\ UNCHANGED <<entry_ids, journal_photos, storage>>
    /\ UNCHANGED fetchVars
    /\ UNCHANGED nonJournalVars

NewEntry_Untrimmed(id, w) ==
    [Row(id, w.userId, encrypt(w.title, w.userId), encrypt(w.content, w.userId),
         "web", EntryDate(w.instant, w.userTimezone, w.runtime))
        EXCEPT !.tags = w.tags, !.created_at = w.instant]

\* the row createJournalEntry inserts
\* (tags as validateTags returned them, created_at by the table's default)
NewEntry(id, w) ==
    [Row(id, w.userId, encrypt(Trim(w.title), w.userId),
         encrypt(Trim(w.content), w.userId), "web",
         EntryDate(w.instant, w.userTimezone, w.runtime))
        EXCEPT !.tags = w.tags, !.created_at = w.instant]

\* new Date(), the entry date, the insert
CreateInsert ==
    /\ writer.pc = "insert"
    /\ \E instant \in Instants, runtime \in RuntimeTimezones :
          LET me == [writer EXCEPT !.instant = instant, !.runtime = runtime]
          IN  \/ \* if (error) throw error
                 /\ writer' = Throw(me, "insert")
                 /\ UNCHANGED <<journal_entries, entry_ids>>
              \/ /\ entry_ids' = entry_ids + 1
                 /\ journal_entries' =
                       Append(journal_entries, NewEntry(entry_ids + 1, me))
                 /\ writer' = [me EXCEPT !.id = entry_ids + 1,
                                  !.pc = IF me.photos # <<>> THEN "upload" ELSE "done"]
    /\ UNCHANGED <<journal, journal_photos, storage>>
    /\ UNCHANGED nonJournalVars

\* a call made for a photo and how it ended
PhotoCall(call, fileName, outcome) ==
    [call |-> call, fileName |-> fileName, outcome |-> outcome]

\* uploadPhotos(photos, id, userId): the objects and their references
UploadPhotos ==
    /\ writer.pc = "upload"
    /\ \/ /\ writer' = Throw(writer, "upload")
          /\ UNCHANGED <<journal_photos, storage>>
       \/ /\ storage' = storage \cup
                {PhotoPath(writer.userId, writer.id, writer.photos[i]) :
                    i \in 1..Len(writer.photos)}
          /\ journal_photos' = journal_photos \cup
                {PhotoRef(writer.id, writer.photos[i]) : i \in 1..Len(writer.photos)}
          /\ writer' = [writer EXCEPT !.pc = "done",
                            !.calls = Append(writer.calls,
                                             PhotoCall("uploadPhotos", "", "ok"))]
    /\ UNCHANGED entry_ids
    /\ UNCHANGED fetchVars
    /\ UNCHANGED nonJournalVars

TagLists == {<<>>, <<"b", "c">>}
\* what validateTags can return for a list: a list of tags taken from it
ValidatedTags(tags) ==
    {t \in TagLists \cup {tags} :
        \A i \in 1..Len(t) : \E j \in 1..Len(tags) : t[i] = tags[j]}

\* updateData: the content, and the tags when the argument is not undefined
UpdateData(encryptedContent, tags, validated) ==
    IF tags.defined THEN [content |-> encryptedContent, tags |-> validated]
    ELSE [content |-> encryptedContent]

\* updateJournalEntry up to its update query: validation and encryption,
\* for a call whose arguments are drawn from the given sets
UpdateCall(removals, additions, tagArgs) ==
    /\ writer.pc = "idle"
    /\ \E id \in 1..entry_ids, userId \in Users, content \in Revisions,
          removedPhotos \in removals, photos \in additions, tags \in tagArgs :
          \E validated \in ValidatedTags(tags.value) :
          LET me == [IdleWriter EXCEPT !.op = "update", !.id = id,
                                       !.userId = userId, !.content = content,
                                       !.photos = photos,
                                       !.removedPhotos = removedPhotos,
                                       !.listed = removedPhotos]
          IN  \/ \* validateEntryContent or validateTags throws
                 writer' = Throw(me, "validation")
              \/ writer' = [me EXCEPT !.pc = "update",
                               !.updateData =
                                  UpdateData(encrypt(Trim(content), userId),
                                             tags, validated)]
    /\ UNCHANGED <<entry_ids, journal_photos, storage>>
    /\ UNCHANGED fetchVars
    /\ UNCHANGED nonJournalVars

\* updateJournalEntry is called with new content and at most one photo to remove
UpdateJournalEntry == UpdateCall(RemovedPhotoLists, {<<>>}, {Undefined})

UpdatedRow_MergeTags(row, id, userId, updateData) ==
    IF row.id = id /\ row.user_id = userId
    THEN [f \in DOMAIN row |->
             IF f = "tags" /\ f \in DOMAIN updateData THEN row[f] \o updateData[f]
             ELSE IF f \in DOMAIN updateData THEN updateData[f] ELSE row[f]]
    ELSE row

\* .update(updateData).eq('id', id).eq('user_id', userId)
UpdatedRow(row, id, userId, updateData) ==
    IF row.id = id /\ row.user_id = userId
    THEN [f \in DOMAIN row |->
             IF f \in DOMAIN updateData THEN updateData[f] ELSE row[f]]
    ELSE row

\* where updateJournalEntry goes after a photo, or after the update query
AfterPhoto(removedPhotos, photos) ==
    IF removedPhotos # <<>> THEN "remove_storage"
    ELSE IF photos # <<>> THEN "upload"
    ELSE "done"

\* the update query returns
UpdateEntry ==
    /\ writer.pc = "update"
    /\ \/ \* if (error) throw error
          /\ writer' = Throw(writer, "update")
          /\ UNCHANGED journal_entries
       \/ /\ journal_entries' =
                [i \in 1..Len(journal_entries) |->
                    UpdatedRow(journal_entries[i], writer.id, writer.userId,
                               writer.updateData)]
          /\ writer' = [writer EXCEPT
                           !.pc = AfterPhoto(writer.removedPhotos, writer.photos)]
    /\ UNCHANGED <<journal, entry_ids, journal_photos, storage>>
    /\ UNCHANGED nonJournalVars

\* how a call made for a removed photo ends: data, { error }, an exception
RemovalOutcomes == {"ok", "error", "throws"}

Remaining_StopOnFailure(removedPhotos, outcome) ==
    IF outcome = "ok" THEN Tail(removedPhotos) ELSE <<>>

\* the photos the loop still has to go through once one has been dealt with
Remaining(removedPhotos, outcome) == Tail(removedPhotos)

\* the loop goes on to the next photo, or to the upload of the new ones
NextPhoto(w, outcome) ==
    LET rest == Remaining(w.removedPhotos, outcome)
    IN  [w EXCEPT !.removedPhotos = rest, !.pc = AfterPhoto(rest, w.photos)]

\* one removed photo: its URL is parsed and its object removed from storage
RemoveFromStorage ==
    /\ writer.pc = "remove_storage"
    /\ LET photoUrl == Head(writer.removedPhotos)
       IN  IF photoUrl = Unparsable
           THEN \* new URL throws: caught, on to the next photo
                /\ writer' = NextPhoto(writer, "throws")
                /\ UNCHANGED storage
           ELSE \E outcome \in RemovalOutcomes :
                   LET fileName == FileName(photoUrl)
                       me == [writer EXCEPT !.calls =
                                 Append(writer.calls,
                                        PhotoCall("storage.remove", fileName, outcome))]
                   IN  /\ writer' = IF outcome = "throws" THEN NextPhoto(me, outcome)
                                    ELSE [me EXCEPT !.pc = "remove_db"]
                       /\ storage' =
                             IF outcome = "ok"
                             THEN storage \ {PhotoPath(writer.userId, writer.id, fileName)}
                             ELSE storage
    /\ UNCHANGED <<entry_ids, journal_photos>>
    /\ UNCHANGED fetchVars
    /\ UNCHANGED nonJournalVars

\* the same photo: .delete().eq('entry_id', id).eq('file_name', fileName)
RemoveFromDb ==
    /\ writer.pc = "remove_db"
    /\ \E outcome \in RemovalOutcomes :
          LET fileName == FileName(Head(writer.removedPhotos))
              me == [writer EXCEPT !.calls =
                        Append(writer.calls,
                               PhotoCall("journal_photos.delete", fileName, outcome))]
          IN  /\ journal_photos' =
                    IF outcome = "ok"
                    THEN journal_photos \ {PhotoRef(writer.id, fileName)}
                    ELSE journal_photos
              /\ writer' = NextPhoto(me, outcome)
    /\ UNCHANGED <<entry_ids, storage>>
    /\ UNCHANGED fetchVars
    /\ UNCHANGED nonJournalVars

\* deleteJournalEntry is called
DeleteJournalEntry ==
    /\ writer.pc = "idle"
    /\ \E entryId \in 1..entry_ids, userId \in Users :
          writer' = [IdleWriter EXCEPT !.op = "delete", !.id = entryId,
                                       !.userId = userId, !.pc = "delete_photos"]
    /\ UNCHANGED <<entry_ids, journal_photos, storage>>
    /\ UNCHANGED fetchVars
    /\ UNCHANGED nonJournalVars

\* deleteEntryPhotos(entryId): the objects of the entry's photos leave storage
DeleteEntryPhotos ==
    /\ writer.pc = "delete_photos"
    /\ \/ /\ writer' = Throw(writer, "deleteEntryPhotos")
          /\ UNCHANGED storage
       \/ \* nothing is found or the removal is refused
          /\ writer' = [writer EXCEPT !.pc = "delete_entry"]
          /\ UNCHANGED storage
       \/ /\ writer' = [writer EXCEPT !.pc = "delete_entry"]
          /\ storage' = {path \in storage :
                            ~(/\ path[2] = writer.id
                              /\ PhotoRef(path[2], path[3]) \in journal_photos)}
    /\ UNCHANGED <<entry_ids, journal_photos>>
    /\ UNCHANGED fetchVars
    /\ UNCHANGED nonJournalVars

\* .delete().eq('id', entryId).eq('user_id', userId), cascading to the
\* photo references of a deleted entry
DeleteEntry ==
    /\ writer.pc = "delete_entry"
    /\ \/ \* if (error) throw error
          /\ writer' = Throw(writer, "delete")
          /\ UNCHANGED <<journal_entries, journal_photos>>
       \/ LET deleted(row) == row.id = writer.id /\ row.user_id = writer.userId
              gone == {journal_entries[i].id : i \in
                          {j \in 1..Len(journal_entries) : deleted(journal_entries[j])}}
          IN  /\ journal_entries' = SelectSeq(journal_entries, LAMBDA row : ~deleted(row))
              /\ journal_photos' = {ref \in journal_photos : ref.entry_id \notin gone}
              /\ writer' = [writer EXCEPT !.pc = "done"]
    /\ UNCHANGED <<journal, entry_ids, storage>>
    /\ UNCHANGED nonJournalVars


\* the caller has taken the result or the error of the call
WriterReturned ==
    /\ writer.pc \in {"done", "failed"}
    /\ writer' = IdleWriter
    /\ UNCHANGED <<entry_ids, journal_photos, storage>>
    /\ UNCHANGED fetchVars
    /\ UNCHANGED nonJournalVars


JournalInit ==
    /\ journal_entries = <<>>
    /\ journal = IdleJournal
    /\ entry_ids = 0
    /\ journal_photos = {}
    /\ storage = {}
    /\ writer = IdleWriter

----------------------------------------------------------------------------
(* The sign-up form SignUpForm.  Its collaborators validateAndRefreshToken, *)
(* checkClientRateLimit, sanitizeInput, detectSuspiciousActivity and        *)
(* logSecurityEvent are not part of these sources: what they return is an   *)
(* input of the handler, and a call of logSecurityEvent is recorded with    *)
(* the event it was given.  A null phone number is the empty tuple.         *)

MsgCsrf == "Security token validation failed. Please refresh the page."
MsgClientRateLimit == "Too many signup attempts. Please wait before trying again."
MsgEmailRequired == "Email is required for account creation"
MsgPhoneRequired == "Phone number is required for account creation"
MsgConsentRequired == "You must agree to receive SMS messages to use SMS Journal"
MsgSuspicious == "Invalid input detected. Please check your information."
MsgPhoneFormat == "Please enter a valid 10-digit US phone number"
MsgDuplicateKey == "duplicate key value violates unique constraint \"profiles_phone_number_unique\""
MsgPhoneRegistered == "This phone number is already registered with another account. Please use a different phone number or sign in to your existing account."

NullPhone == <<>>

formatPhoneNumber(input) ==
    LET digits == DigitsOf(input)
        cleanDigits == IF Len(digits) = 11 /\ Head(digits) = "1"
                       THEN Tail(digits) ELSE digits
    IN  IF Len(cleanDigits) = 10 THEN <<"+", "1">> \o cleanDigits ELSE NullPhone

TenDigits == <<"5", "5", "5", "1", "2", "3", "4", "5", "6", "7">>
\* the values of the phone field: empty, ten digits, the same with the
\* country code, punctuated, too short, eleven digits without the code
FormPhones ==
    { <<>>, TenDigits, <<"1">> \o TenDigits,
      <<"(", "5", "5", "5", ")", " ", "1", "2", "3", "-", "4", "5", "6", "7">>,
      <<"5", "5", "5">>, <<"2">> \o TenDigits }
FormEmails == {<<>>, GoodEmail}

\* the state of the form's fields and what the checks' collaborators answer
FormInputs ==
    [validToken : BOOLEAN, withinRateLimit : BOOLEAN, email : FormEmails,
     phoneNumber : FormPhones, smsConsent : BOOLEAN, suspicious : BOOLEAN]

NoInputs ==
    [validToken |-> FALSE, withinRateLimit |-> FALSE, email |-> <<>>,
     phoneNumber |-> <<>>, smsConsent |-> FALSE, suspicious |-> FALSE]

IdleForm ==
    [pc |-> "idle", in |-> NoInputs, sanitizedEmail |-> <<>>,
     formattedPhone |-> NullPhone, calls |-> <<>>, logged |-> <<>>,
     data |-> NoData, consent |-> "", confirmation |-> "", error |-> "",
     success |-> NullPhone, toast |-> ""]

\* how a call that is awaited inside try/catch ends: data, { error }, a rejection
CallOutcomes == {"ok", "error", "throws"}
\* how a logSecurityEvent call ends
LogOutcomes == {"ok", "rejects"}

Precheck_NoConsent(in) ==
    IF ~in.validToken THEN MsgCsrf
    ELSE IF ~in.withinRateLimit THEN MsgClientRateLimit
    ELSE IF in.email = <<>> THEN MsgEmailRequired
    ELSE IF in.phoneNumber = <<>> THEN MsgPhoneRequired
    ELSE ""

\* the checks of handleSignUp that come before sanitizeInput: the message
\* of the Error thrown, "" when none is
Precheck(in) ==
    IF ~in.validToken THEN MsgCsrf
    ELSE IF ~in.withinRateLimit THEN MsgClientRateLimit
    ELSE IF in.email = <<>> THEN MsgEmailRequired
    ELSE IF in.phoneNumber = <<>> THEN MsgPhoneRequired
    ELSE IF ~in.smsConsent THEN MsgConsentRequired
    ELSE ""

SuspiciousEvent(in) ==
    [event_type |-> "suspicious_signup_attempt",
     identifier |-> in.email,
     details |-> [suspicious_email |-> in.email, suspicious_phone |-> in.phoneNumber],
     severity |-> "high"]

\* identifier: email || 'unknown'
FailedSignupEvent(email, message) ==
    [event_type |-> "failed_signup",
     identifier |-> IF email # <<>> THEN email ELSE <<"unknown">>,
     details |-> [error |-> message],
     severity |-> "low"]

\* the catch block up to its await: logSecurityEvent is called
CatchForm(me, message) ==
    [me EXCEPT !.pc = "log_failed", !.error = message,
               !.logged = Append(me.logged, FailedSignupEvent(me.in.email, message))]

\* onSignUpSuccess(formattedPhone) and the toast
Succeed(me) ==
    [me EXCEPT !.pc = "done", !.success = me.formattedPhone,
               !.calls = Append(me.calls, "onSignUpSuccess"),
               !.toast = "Account created!"]

\* handleSignUp up to its first await
HandleSignUp ==
    /\ form.pc = "idle"
    /\ ~signup_loading
    /\ \E in \in FormInputs, sanitizedEmail \in FormEmails, sanitizedPhone \in FormPhones :
          LET me == [IdleForm EXCEPT !.in = in]
              thrown == Precheck(in)
              formattedPhone == formatPhoneNumber(sanitizedPhone)
          IN  form' =
                 IF thrown # "" THEN CatchForm(me, thrown)
                 ELSE IF in.suspicious
                 THEN [me EXCEPT !.pc = "log_suspicious",
                                 !.logged = Append(me.logged, SuspiciousEvent(in))]
                 ELSE IF formattedPhone = NullPhone THEN CatchForm(me, MsgPhoneFormat)
                 ELSE [me EXCEPT !.pc = "signUp",
                                 !.sanitizedEmail = sanitizedEmail,
                                 !.formattedPhone = formattedPhone,
                                 !.calls = Append(me.calls, "signUp")]
    /\ signup_loading' = TRUE
    /\ UNCHANGED sms_consents
    /\ UNCHANGED <<gwVars, authVars, journalVars>>

\* the suspicious_signup_attempt event has been logged, or logging it rejected
SuspiciousLogged ==
    /\ form.pc = "log_suspicious"
    /\ \E outcome \in LogOutcomes :
          form' = CatchForm(form, IF outcome = "ok" THEN MsgSuspicious
                                  ELSE "logSecurityEvent failed")
    /\ UNCHANGED <<signup_loading, sms_consents>>
    /\ UNCHANGED <<gwVars, authVars, journalVars>>

\* useAuth's signUp: { data: data.data, error: null } or { data: null, error }
SignUpResult(invoked) ==
    IF invoked.error # "" THEN [data |-> NoData, error |-> invoked.error]
    ELSE [data |-> invoked.data.data, error |-> ""]

\* the Error handleSignUp throws for the error signUp returned
SignUpError(error) ==
    IF error = MsgDuplicateKey THEN MsgPhoneRegistered ELSE error

\* the answers with which the gateway rejects a sign-up
SignupRejections ==
    { ErrorResponse(400, MsgInvalidPhone),
      ErrorResponse(400, MsgProvider),
      ErrorResponse(429, MsgTooManyAttempts),
      ErrorResponse(500, MsgInternal) }

SignedUp(userId) ==
    Response(200, [data |-> [user |-> userId],
                   rate_limit |-> [attempts |-> 1, max_attempts |-> SignupMaxAttempts]])

\* signUp returns what the gateway answered, or throws
SignUpReturns ==
    /\ form.pc = "signUp"
    /\ \/ \* the gateway created the account
          /\ \A u \in auth_users : u.email # form.sanitizedEmail
          /\ form.sanitizedEmail # <<>>
          /\ auth_users' = auth_users \cup
                 {[email |-> form.sanitizedEmail,
                   data |-> Metadata(form.formattedPhone, "America/Los_Angeles")]}
          /\ LET result == SignUpResult(FunctionsInvoke(SignedUp(form.sanitizedEmail)))
             IN  form' = [form EXCEPT !.pc = "consent", !.data = result.data,
                              !.calls = Append(form.calls, "insert:sms_consents")]
          /\ UNCHANGED signup_loading
       \/ \* the gateway answered 200 without a user
          /\ LET result == SignUpResult(FunctionsInvoke(SignedUp(<<>>)))
             IN  form' = Succeed([form EXCEPT !.data = result.data])
          /\ signup_loading' = FALSE
          /\ UNCHANGED auth_users
       \/ \* the gateway rejected the request, or it was not reached
          /\ \E error \in {FunctionsInvoke(resp).error : resp \in SignupRejections}
                              \cup {"FunctionsFetchError"} :
                form' = CatchForm(form, SignUpError(SignUpResult(
                                     [data |-> NoData, error |-> error]).error))
          /\ UNCHANGED <<auth_users, signup_loading>>
       \/ \* a null body without an error: reading data.data throws
          /\ form' = CatchForm(form, "TypeError")
          /\ UNCHANGED <<auth_users, signup_loading>>
    /\ UNCHANGED sms_consents
    /\ UNCHANGED <<now, rate_limits, account_lockouts, security_events, handlers>>
    /\ UNCHANGED <<authVars, journalVars>>

\* storeSmsConsent: whatever the insert returns or throws is only logged
StoreSmsConsent ==
    /\ form.pc = "consent"
    /\ \E outcome \in CallOutcomes :
          /\ sms_consents' =
                IF outcome = "ok"
                THEN sms_consents \cup {[user_id |-> form.data.user,
                                         phone_number |-> form.formattedPhone]}
                ELSE sms_consents
          /\ form' = [form EXCEPT !.pc = "confirmation", !.consent = outcome,
                          !.calls = Append(form.calls, "invoke:send-signup-confirmation")]
    /\ UNCHANGED signup_loading
    /\ UNCHANGED <<gwVars, authVars, journalVars>>

SignupOutcome_Strict(consent, confirmation) ==
    IF consent = "ok" /\ confirmation = "ok" THEN "success" ELSE "failed"

\* how handleSignUp goes on after storeSmsConsent and sendSignupConfirmation,
\* which catch every failure of their calls
SignupOutcome(consent, confirmation) == "success"

\* sendSignupConfirmation returns; onSignUpSuccess, the toast, finally
SendSignupConfirmation ==
    /\ form.pc = "confirmation"
    /\ \E outcome \in CallOutcomes :
          LET me == [form EXCEPT !.confirmation = outcome]
          IN  IF SignupOutcome(form.consent, outcome) = "success"
              THEN form' = Succeed(me) /\ signup_loading' = FALSE
              ELSE form' = CatchForm(me, "Error sending signup confirmation")
                   /\ UNCHANGED signup_loading
    /\ UNCHANGED sms_consents
    /\ UNCHANGED <<gwVars, authVars, journalVars>>

\* the failed_signup event has been logged (then the toast), or logging it
\* rejected; finally setLoading(false)
FailedLogged ==
    /\ form.pc = "log_failed"
    /\ \E outcome \in LogOutcomes :
          form' = [form EXCEPT !.pc = "done",
                       !.toast = IF outcome = "ok" THEN "Sign up failed" ELSE ""]
    /\ signup_loading' = FALSE
    /\ UNCHANGED sms_consents
    /\ UNCHANGED <<gwVars, authVars, journalVars>>

\* the form is ready for the next submission
FormReset ==
    /\ form.pc = "done"
    /\ form' = IdleForm
    /\ UNCHANGED <<signup_loading, sms_consents>>
    /\ UNCHANGED <<gwVars, authVars, journalVars>>

FormInit ==
    /\ form = IdleForm
    /\ signup_loading = FALSE
    /\ sms_consents = {}

----------------------------------------------------------------------------
(* Spec: one handler at a time serves the client's requests while the clock *)
(* advances and accounts get locked and unlocked.                          *)

Init == GatewayInit /\ AuthInit /\ idp_session = NoSession /\ JournalInit /\ FormInit

Next ==
    \/ Receive(1, ClientRequests)
    \/ Handle(1)
    \/ Tick
    \/ SetLockout

Spec == Init /\ [][Next]_vars

(* SpecConcurrent: MaxHandlers handlers serve sign-up requests of one       *)
(* identifier concurrently within one window.                              *)

SignupRequests == {r \in ClientRequests : r.action = "signup"}

NextConcurrent ==
    \/ \E h \in Handlers : Receive(h, SignupRequests)
    \/ \E h \in Handlers : RateLimitGate(h)
    \/ \E h \in Handlers : LogRateLimit(h)
    \/ \E h \in Handlers : SignUp(h)
    \/ \E h \in Handlers : LogSignup(h)
    \/ \E h \in Handlers : Finish(h)

SpecConcurrent == Init /\ [][NextConcurrent]_vars

(* SpecValidation: one handler serves every kind of request, well-formed   *)
(* or not, at a fixed instant.                                             *)

NextValidation ==
    \/ ReceiveInvalidJson(1)
    \/ Receive(1, Requests)
    \/ Handle(1)
    \/ SetLockout

SpecValidation == Init /\ [][NextValidation]_vars

(* SpecAuth: one useAuth instance; its session fetch, the provider's       *)
(* notifications, signIn, signOut and the teardown interleave freely.       *)

InitAuth == GatewayInit /\ AuthInit /\ JournalInit /\ FormInit

NextAuth ==
    \/ GetSession
    \/ GetInitialSession
    \/ OnAuthStateChange
    \/ SessionEnds
    \/ Unmount
    \/ SignInStart
    \/ SecureAuthReturns
    \/ SignInWithPassword
    \/ TrackLoginFailure
    \/ SignInFinish
    \/ SignOutStart
    \/ SignOutReturns
    \/ SignOutFinish

SpecAuth == InitAuth /\ [][NextAuth]_vars

(* SpecAuthLive: the same, where the continuation of getInitialSession     *)
(* runs once the promise of getSession has settled.                         *)

SpecAuthLive == InitAuth /\ [][NextAuth]_vars /\ WF_vars(GetInitialSession)

(* SpecJournal: rows of two users accumulate while one reader fetches.      *)

NextJournal ==
    \/ StoreEntry
    \/ FetchJournalEntries
    \/ ProcessEntries
    \/ FetchReturned

SpecJournal == Init /\ [][NextJournal]_vars

(* SpecJournalWrite: entries are created, updated and deleted by calls of   *)
(* the journal service made one after the other.                            *)

NextJournalWrite ==
    \/ CreateJournalEntry
    \/ CreateProfile
    \/ CreateInsert
    \/ UploadPhotos
    \/ UpdateJournalEntry
    \/ UpdateEntry
    \/ RemoveFromStorage
    \/ RemoveFromDb
    \/ DeleteJournalEntry
    \/ DeleteEntryPhotos
    \/ DeleteEntry
    \/ WriterReturned

SpecJournalWrite == Init /\ [][NextJournalWrite]_vars

(* SpecJournalUpdate: an entry created with two photos and a tag is updated *)
(* by calls that replace its tags, remove listed photos and add new ones.   *)

RemovalUrls == {Unparsable, PhotoUrl("p1"), PhotoUrl("p2")}
RemovalLists == {<<>>} \cup {<<a>> : a \in RemovalUrls}
                    \cup {<<a, b>> : a, b \in RemovalUrls}
TagArgs == {Undefined} \cup {Defined(t) : t \in TagLists}

\* the entry as createJournalEntry left it
CreatedEntry ==
    NewEntry(1, [IdleWriter EXCEPT !.userId = "u1", !.title = <<"t", " ">>,
                                   !.content = <<" ", "h", "i", " ">>,
                                   !.tags = <<"a">>, !.instant = 30,
                                   !.userTimezone = "America/Los_Angeles",
                                   !.runtime = "UTC"])

InitUpdate ==
    /\ GatewayInit /\ AuthInit /\ idp_session = NoSession /\ FormInit
    /\ journal_entries = <<CreatedEntry>>
    /\ journal = IdleJournal
    /\ entry_ids = 1
    /\ journal_photos = {PhotoRef(1, "p1"), PhotoRef(1, "p2")}
    /\ storage = {PhotoPath("u1", 1, "p1"), PhotoPath("u1", 1, "p2")}
    /\ writer = IdleWriter

\* updateJournalEntry is called with any of its optional arguments
UpdateWithPhotos == UpdateCall(RemovalLists, PhotoLists, TagArgs)

NextJournalUpdate ==
    \/ UpdateWithPhotos
    \/ UpdateEntry
    \/ RemoveFromStorage
    \/ RemoveFromDb
    \/ UploadPhotos
    \/ WriterReturned

SpecJournalUpdate == InitUpdate /\ [][NextJournalUpdate]_vars

(* SpecForm: the sign-up form is submitted again and again with every       *)
(* combination of its inputs.                                               *)

NextForm ==
    \/ HandleSignUp
    \/ SuspiciousLogged
    \/ SignUpReturns
    \/ StoreSmsConsent
    \/ SendSignupConfirmation
    \/ FailedLogged
    \/ FormReset

SpecForm == Init /\ [][NextForm]_vars

----------------------------------------------------------------------------
(* Claims about the gateway *)

Answered(h) == handlers[h].pc # "done" /\ handlers'[h].pc = "done"
ValidationPassed(resp) == resp.status = 200 /\ "validation_passed" \in DOMAIN resp.body
WellFormed(h) ==
    Validation(h.action, h.email, h.password, h.phoneNumber) = NoResponse

\* C1: a well-formed sign-in is answered validation_passed exactly when the
\* rate limiter allowed it and the account holds no lockout whose locked_until
\* is in the future; an allowed attempt on a locked account is answered 423
\* with that locked_until; the lockout lookup follows the rate-limit check.
C1_LockoutBlocksSignin ==
    [][\A h \in Handlers :
          LET was == handlers[h]
              me == handlers'[h]
              locked == Locked(account_lockouts[me.email], now)
          IN  (Answered(h) /\ was.action = "signin" /\ WellFormed(was)) =>
                 /\ ValidationPassed(me.resp) <=> (me.rateLimitCheck.allowed /\ ~locked)
                 /\ (me.rateLimitCheck.allowed /\ locked) =>
                       /\ me.resp.status = 423
                       /\ me.resp.body.locked_until = account_lockouts[me.email]
                 /\ \A i \in 1..Len(me.calls) :
                       me.calls[i] = "select:account_lockouts" =>
                          /\ i = 2 /\ me.calls[1] = "rpc:check_rate_limit"
                          /\ me.rateLimitCheck.allowed]_vars

\* the state a well-formed sign-in was allowed by the rate limiter, found the
\* account locked and was answered 423
C1_Witness ==
    \E h \in Handlers :
        /\ handlers[h].pc = "done" /\ handlers[h].action = "signin"
        /\ handlers[h].rateLimitCheck.allowed
        /\ handlers[h].resp.status = 423
        /\ handlers[h].resp.body.locked_until = account_lockouts[handlers[h].email]

\* the check_rate_limit call of handler h returned a result
RateLimitChecked(h) ==
    /\ handlers[h].pc = "rate_limit"
    /\ handlers'[h].pc \in {"log_rate_limit", "lockout", "signup"}

\* C2: for every (identifier, endpoint): once maxAttempts checks (5 for
\* sign-in, 3 for sign-up) were counted in the running window, the next check
\* in that window returns allowed = false with blocked_until the window's end,
\* which is in the future; the first check after the window has elapsed
\* returns allowed = true with attempts = 1 and restarts the window.
C2_RateLimitWindow ==
    [][\A h \in Handlers : RateLimitChecked(h) =>
          LET key == RateLimitKey(h)
              max == IF key[2] = "auth_signin" THEN SigninMaxAttempts
                     ELSE SignupMaxAttempts
              row == rate_limits[key]
              res == handlers'[h].rateLimitCheck
              inWindow == row.attempts > 0 /\ now < row.window_start + WindowMinutes
          IN  /\ (inWindow /\ row.attempts >= max) =>
                    /\ ~res.allowed
                    /\ res.blocked_until = row.window_start + WindowMinutes
                    /\ res.blocked_until > now
              /\ (inWindow /\ row.attempts < max) =>
                    /\ res.allowed
                    /\ res.attempts = row.attempts + 1
              /\ (row.attempts > 0 /\ ~inWindow) =>
                    /\ res.allowed
                    /\ res.attempts = 1
                    /\ rate_limits'[key].attempts = 1
                    /\ rate_limits'[key].window_start = now]_vars

\* a pair was blocked in its first window (the event was logged) and its
\* window has been restarted after it elapsed
C2_Witness ==
    \E k \in Keys :
        /\ rate_limits[k].attempts = 1
        /\ rate_limits[k].window_start = WindowMinutes
        /\ \E i \in 1..Len(security_events) :
              /\ security_events[i].event_type = "rate_limit_exceeded"
              /\ security_events[i].identifier = k[1]
              /\ security_events[i].details.endpoint = k[2]
              /\ security_events[i].details.blocked_until = WindowMinutes

\* C3: the checks run in the order action, email, password present, password
\* strength (sign-up only), phone number (when provided), rate limit, lockout
\* (sign-in only); the first failing check decides the response and no later
\* check is made; a weak non-empty password does not fail a sign-in.
C3_ValidationOrder ==
    \A h \in Handlers :
        LET me == handlers[h]
            badAction == me.action \notin {"signin", "signup"}
            badEmail == me.email = <<>> \/ ~validateEmail(me.email)
            noPassword == me.password = <<>>
            weakPassword == me.action = "signup" /\ ~validatePassword(me.password)
            badPhone == me.phoneNumber # <<>> /\ ~validatePhoneNumber(me.phoneNumber)
            rejected(msg) == me.resp = ErrorResponse(400, msg) /\ me.calls = <<>>
        IN  (me.pc = "done" /\ me.resp # ErrorResponse(400, MsgInvalidJson)) =>
               /\ badAction => rejected(MsgInvalidAction)
               /\ (~badAction /\ badEmail) => rejected(MsgInvalidEmail)
               /\ (~badAction /\ ~badEmail /\ noPassword) =>
                     rejected(MsgPasswordRequired)
               /\ (~badAction /\ ~badEmail /\ ~noPassword /\ weakPassword) =>
                     rejected(MsgWeakPassword)
               /\ (~badAction /\ ~badEmail /\ ~noPassword /\ ~weakPassword /\ badPhone) =>
                     rejected(MsgInvalidPhone)
               /\ (~badAction /\ ~badEmail /\ ~noPassword /\ ~weakPassword /\ ~badPhone) =>
                     /\ me.calls # <<>>
                     /\ me.calls[1] = "rpc:check_rate_limit"
                     /\ me.resp.status \notin {400} \/ me.action = "signup"
                     /\ ~me.rateLimitCheck.allowed =>
                           /\ me.resp.status \in {429, 500}
                           /\ me.calls \in {<<"rpc:check_rate_limit">>,
                                            <<"rpc:check_rate_limit", "insert:security_events">>}
                     /\ me.resp.status = 429 =>
                           me.calls = <<"rpc:check_rate_limit", "insert:security_events">>
                     /\ me.resp.status = 423 =>
                           /\ me.action = "signin"
                           /\ me.rateLimitCheck.allowed
                           /\ me.calls = <<"rpc:check_rate_limit", "select:account_lockouts">>
                     /\ (me.action = "signin" /\ me.rateLimitCheck.allowed) =>
                           me.calls = <<"rpc:check_rate_limit", "select:account_lockouts">>
                     /\ me.action = "signup" =>
                           \A i \in 1..Len(me.calls) : me.calls[i] # "select:account_lockouts"

\* a request failing the email, the password and the phone check at once was
\* answered with the email error
C3_Witness ==
    \E h \in Handlers :
        /\ handlers[h].pc = "done"
        /\ handlers[h].action = "signup"
        /\ handlers[h].email = BadEmail
        /\ handlers[h].password = <<>>
        /\ handlers[h].phoneNumber = BadPhone
        /\ handlers[h].resp = ErrorResponse(400, MsgInvalidEmail)

SigninCalls ==
    {<<>>, <<"rpc:check_rate_limit">>,
     <<"rpc:check_rate_limit", "insert:security_events">>,
     <<"rpc:check_rate_limit", "select:account_lockouts">>}

\* C4: a sign-in request never reaches the identity provider: its handler calls
\* only the rate limiter, then either the security-event insert or the lockout
\* lookup; its steps leave the provider's accounts and the lockouts unchanged
\* and append at most a rate_limit_exceeded event; its 200 response holds
\* exactly validation_passed, message and rate_limit.
C4_SigninNeverCallsProvider ==
    /\ [](\A h \in Handlers :
            handlers[h].action = "signin" =>
               /\ handlers[h].calls \in SigninCalls
               /\ handlers[h].user = <<>>
               /\ (handlers[h].pc = "done" /\ handlers[h].resp.status = 200) =>
                     DOMAIN handlers[h].resp.body =
                        {"validation_passed", "message", "rate_limit"})
    /\ [][\A h \in Handlers :
            (handlers[h].action = "signin" /\ handlers'[h] # handlers[h]) =>
               /\ auth_users' = auth_users
               /\ account_lockouts' = account_lockouts
               /\ \/ security_events' = security_events
                  \/ /\ Len(security_events') = Len(security_events) + 1
                     /\ SubSeq(security_events', 1, Len(security_events)) = security_events
                     /\ security_events'[Len(security_events')].event_type =
                           "rate_limit_exceeded"]_vars

\* a sign-in was acknowledged while the provider holds an account
C4_Witness ==
    \E h \in Handlers :
        /\ handlers[h].pc = "done" /\ handlers[h].action = "signin"
        /\ handlers[h].resp.status = 200
        /\ handlers[h].password = WeakPassword
        /\ auth_users # {}

\* C9: concurrent requests of one identifier to one endpoint lose no
\* increment: every check that returns a result raises the pair's counter by
\* exactly one and returns the raised value, nothing else changes the counter,
\* no two handlers hold the same attempt number, and an allowed handler's
\* attempt number is at most maxAttempts.
C9_NoLostIncrement ==
    /\ [](\A h1 \in Handlers, h2 \in Handlers :
            (/\ h1 # h2
             /\ handlers[h1].rateLimitCheck.attempts > 0
             /\ handlers[h2].rateLimitCheck.attempts > 0
             /\ RateLimitKey(h1) = RateLimitKey(h2)) =>
               handlers[h1].rateLimitCheck.attempts # handlers[h2].rateLimitCheck.attempts)
    /\ [](\A h \in Handlers :
            handlers[h].rateLimitCheck.allowed =>
               handlers[h].rateLimitCheck.attempts <=
                  (IF handlers[h].action = "signin" THEN SigninMaxAttempts
                   ELSE SignupMaxAttempts))
    /\ [][/\ \A h \in Handlers : RateLimitChecked(h) =>
                /\ rate_limits'[RateLimitKey(h)].attempts =
                      rate_limits[RateLimitKey(h)].attempts + 1
                /\ handlers'[h].rateLimitCheck.attempts =
                      rate_limits'[RateLimitKey(h)].attempts
          /\ (\A h \in Handlers : ~RateLimitChecked(h)) =>
                rate_limits' = rate_limits]_vars

\* two handlers are in flight at once, one holding the last allowed attempt
\* and one the first rejected attempt of the same pair
C9_Witness ==
    \E h1 \in Handlers, h2 \in Handlers :
        /\ handlers[h1].pc = "signup" /\ handlers[h2].pc = "log_rate_limit"
        /\ RateLimitKey(h1) = RateLimitKey(h2)
        /\ handlers[h1].rateLimitCheck.attempts = SignupMaxAttempts
        /\ handlers[h2].rateLimitCheck.attempts = SignupMaxAttempts + 1
        /\ rate_limits[RateLimitKey(h1)].attempts = SignupMaxAttempts + 1


----------------------------------------------------------------------------
(* Claims about the client auth hook *)

ContactedProvider ==
    \E i \in 1..Len(signin.calls) : signin.calls[i] = "auth.signInWithPassword"
GatewayAcknowledged ==
    signin.validation.error = "" /\ validation_passed(signin.validation.data)

\* C5: signIn calls signInWithPassword only after the gateway call returned
\* without error and with validation_passed = true; when the gateway returned
\* an error or a body without validation_passed, signIn returns an error and
\* the identity provider is not contacted
C5_ProviderOnlyAfterValidation ==
    /\ ContactedProvider =>
          /\ GatewayAcknowledged
          /\ signin.calls[1] = "invoke:secure-auth"
          /\ signin.calls[2] = "auth.signInWithPassword"
    /\ (signin.pc = "done" /\ ~GatewayAcknowledged) =>
          /\ signin.result.error # ""
          /\ signin.result.data = NoSession
          /\ ~ContactedProvider

C5_Witness ==
    /\ signin.pc = "done"
    /\ ContactedProvider
    /\ signin.result.error = ""

\* C6: once signOut has been requested, the hook never again holds a user and
\* a session that come from a session issued before that request
C6_NoReauthFromOldSession ==
    ~(user # "" /\ session # NoSession /\ session.login \in signout_requested)

SignOutIssued == signout.pc = "idle" /\ signout'.pc = "remote"
SignOutReturned == signout.pc = "remote" /\ signout'.pc = "done"

\* C7: signOut has set user and session to null when the remote call is
\* issued, the return of that call restores neither, and the result is
\* always {error: null}
C7_SignOutClearsFirst ==
    [][/\ SignOutIssued => user' = "" /\ session' = NoSession
       /\ SignOutReturned =>
             /\ user' \in {user, ""}
             /\ session' \in {session, NoSession}
             /\ signout'.result = [error |-> ""]]_vars

\* the remote call failed: the provider still holds the old session
C7_Witness ==
    /\ signout.pc = "done"
    /\ idp_session.login \in signout_requested
    /\ user = ""
    /\ session = NoSession

\* C8: after the teardown neither the completion of the initial session
\* fetch nor a session-change notification changes user, session or loading
C8_NoUpdateAfterTeardown ==
    [][(/\ ~mounted
        /\ \/ GetInitialSession
           \/ OnAuthStateChange
           \/ SessionEnds
           \/ SignInWithPassword
           \/ SignOutReturns)
          => UNCHANGED <<user, session, loading>>]_vars

\* the fetch has settled after the teardown and loading is still true
C8_Witness ==
    /\ ~mounted
    /\ fetch.pc = "settled"
    /\ loading

----------------------------------------------------------------------------
(* Claims about the journal service *)

Decryptable(entry, userId) ==
    decrypt(entry.title, userId).ok /\ decrypt(entry.content, userId).ok

\* C10: fetchJournalEntries fails only when its query fails; otherwise it
\* returns one result per stored entry of the user, in the query's order,
\* an entry whose title or content does not decrypt with its raw stored title
\* and content, every other entry decrypted
C10_FetchPerEntryFallback ==
    /\ [](journal.pc = "done" =>
            /\ Len(journal.result) = Len(journal.data)
            /\ \A i \in 1..Len(journal.data) :
                  LET entry == journal.data[i]
                      shown == journal.result[i]
                  IN  /\ shown.id = entry.id
                      /\ IF Decryptable(entry, journal.userId)
                         THEN /\ shown.title = decrypt(entry.title, journal.userId).value
                              /\ shown.content = decrypt(entry.content, journal.userId).value
                         ELSE /\ shown.title = entry.title
                              /\ shown.content = entry.content)
    /\ [][/\ (journal.pc = "idle" /\ journal'.pc = "process") =>
                journal'.data = SelectRows(journal_entries, journal'.userId)
          /\ journal.pc = "process" => journal'.pc \in {"process", "done"}]_vars

\* two entries of one user were fetched: the newer decrypted, the older one,
\* whose title is damaged, raw
C10_Witness ==
    /\ journal.pc = "done"
    /\ Len(journal.result) = 2
    /\ journal.result[1].content = Secret
    /\ journal.result[1].title = Secret
    /\ journal.result[2].title = Corrupted
    /\ journal.result[2].content = encrypt(Secret, journal.userId)

\* the entries a call of the journal service wrote to
WrittenRows ==
    {i \in 1..Len(journal_entries') :
        /\ journal_entries'[i].id = writer'.id
        /\ journal_entries'[i].user_id = writer.userId}
CreateInserted == writer.pc = "insert" /\ writer'.pc \in {"upload", "done"}
EntryUpdated == writer.pc = "update" /\ writer'.pc \in {"remove_storage", "upload", "done"}
ReadBack(row) == ProcessEntry(row, row.user_id)

NeverEncrypted(text) == text = <<>> \/ text[1] # CipherMark

\* C12: a stored title or content that was never encrypted reaches the reader
\* unchanged and its decryption makes no fetch fail
C12_FallbackLaw ==
    /\ \A u \in Users : decrypt(Legacy, u) = Decrypted(Legacy)
    /\ journal.pc = "done" =>
          /\ Len(journal.result) = Len(journal.data)
          /\ \A i \in 1..Len(journal.data) :
                /\ NeverEncrypted(journal.data[i].title) =>
                      journal.result[i].title = journal.data[i].title
                /\ NeverEncrypted(journal.data[i].content) =>
                      journal.result[i].content = journal.data[i].content

\* a row with a legacy title and an encrypted content was read: the title
\* as stored, the content decrypted
C12_Witness ==
    /\ journal.pc = "done"
    /\ \E i \in 1..Len(journal.data) :
          /\ journal.data[i].title = Legacy
          /\ journal.data[i].content = encrypt(Secret, journal.userId)
          /\ journal.result[i].title = Legacy
          /\ journal.result[i].content = Secret

\* what belongs to users other than v: their entries, the photo references
\* of their entries, their stored photos
EntriesOfOthers(rows, v) ==
    {rows[i] : i \in {j \in 1..Len(rows) : rows[j].user_id # v}}
PhotoRefsOfOthers(v) ==
    {ref \in journal_photos :
        \E row \in EntriesOfOthers(journal_entries, v) : row.id = ref.entry_id}
StoredPhotosOfOthers(v) ==
    {path \in storage :
        \E row \in EntriesOfOthers(journal_entries, v) :
            row.id = path[2] /\ PhotoRef(path[2], path[3]) \in journal_photos}

\* C13: fetchJournalEntries(v) returns entries of v only, and a step of
\* updateJournalEntry or deleteJournalEntry called with userId = v changes no
\* entry of another user, none of its photo references, none of its stored
\* photos
C13_OnlyOwnerWrites ==
    /\ [](journal.pc \in {"process", "done"} =>
             \A i \in 1..Len(journal.data) :
                journal.data[i].user_id = journal.userId)
    /\ [][(writer.op \in {"update", "delete"} /\ writer.pc # "idle") =>
             /\ EntriesOfOthers(journal_entries', writer.userId) =
                   EntriesOfOthers(journal_entries, writer.userId)
             /\ PhotoRefsOfOthers(writer.userId) \subseteq journal_photos'
             /\ StoredPhotosOfOthers(writer.userId) \subseteq storage']_vars

\* the calendar date of an instant on the wall clock of a zone
LocalDate(instant, timeZone) == (instant + OffsetOf(timeZone)) \div HoursPerDay

\* C14: the entry_date createJournalEntry stores is the calendar date of the
\* instant of creation in the user's stored timezone, UTC when none is stored
C14_EntryDateIsLocalDate ==
    [][CreateInserted =>
          journal_entries'[Len(journal_entries')].entry_date =
             LocalDate(writer'.instant, UserTimezone(profiles[writer.userId]))]_vars

----------------------------------------------------------------------------
(* Claims about the gateway's events and errors *)

LoggedRateLimit(h) == handlers[h].pc = "log_rate_limit" /\ handlers'[h].pc = "done"
LoggedSignup(h) == handlers[h].pc = "log_signup" /\ handlers'[h].pc = "done"
TooManyAttempts(h) ==
    Response(429, [error |-> MsgTooManyAttempts,
                   blocked_until |-> handlers[h].rateLimitCheck.blocked_until])
AccountOf(email) == {u \in auth_users : u.email = email}

\* C15: whether the security_events insert succeeds or fails, a rate-limited
\* request is answered 429 with blocked_until and a sign-up whose account was
\* created is answered 200 with that account
C15_LogFailureSwallowed ==
    [][\A h \in Handlers :
          /\ LoggedRateLimit(h) => handlers'[h].resp = TooManyAttempts(h)
          /\ LoggedSignup(h) =>
                /\ handlers'[h].resp.status = 200
                /\ handlers'[h].resp.body.data.user = handlers[h].user
                /\ AccountOf(handlers[h].user) # {}
                /\ handlers'[h].caught = ""]_vars

\* the account exists and the response is 200 although no event was stored
C15_Witness ==
    \E h \in Handlers :
        /\ handlers[h].pc = "done" /\ handlers[h].action = "signup"
        /\ handlers[h].resp.status = 200
        /\ handlers[h].user # <<>>
        /\ AccountOf(handlers[h].user) # {}
        /\ security_events = <<>>

RateLimitExceeded(h) ==
    [event_type |-> "rate_limit_exceeded",
     identifier |-> handlers[h].clientIP \o <<":">> \o handlers[h].email,
     details |-> [endpoint |-> EndpointOf(handlers[h].action),
                  ip |-> handlers[h].clientIP,
                  email |-> handlers[h].email,
                  blocked_until |-> handlers[h].rateLimitCheck.blocked_until],
     severity |-> "medium"]

\* C16: a request the rate limiter rejected gets one insert of a
\* rate_limit_exceeded event of severity medium for clientIP:email and the
\* answer 429 with the limiter's blocked_until; no lockout lookup, no sign-up
C16_RateLimitRejection ==
    /\ [](\A h \in Handlers :
            (handlers[h].pc = "log_rate_limit" \/ handlers[h].resp.status = 429) =>
               /\ ~handlers[h].rateLimitCheck.allowed
               /\ handlers[h].calls \in
                     {<<"rpc:check_rate_limit">>,
                      <<"rpc:check_rate_limit", "insert:security_events">>}
               /\ handlers[h].user = <<>>)
    /\ [][\A h \in Handlers :
            /\ (/\ handlers[h].pc = "rate_limit"
                /\ handlers'[h].pc \notin {"rate_limit", "done"}) =>
                  (handlers'[h].pc = "log_rate_limit" <=>
                      ~handlers'[h].rateLimitCheck.allowed)
            /\ LoggedRateLimit(h) =>
                  /\ handlers'[h].resp = TooManyAttempts(h)
                  /\ handlers'[h].calls =
                        <<"rpc:check_rate_limit", "insert:security_events">>
                  /\ auth_users' = auth_users
                  /\ \/ security_events' = security_events
                     \/ security_events' =
                           Append(security_events, RateLimitExceeded(h))]_vars

C16_Witness ==
    \E h \in Handlers :
        /\ handlers[h].pc = "done"
        /\ handlers[h].resp.status = 429
        /\ handlers[h].resp.body.blocked_until # None
        /\ Len(security_events) = 1
        /\ security_events[1].event_type = "rate_limit_exceeded"
        /\ security_events[1].severity = "medium"

AccountCreated(h) == handlers[h].pc = "signup" /\ handlers'[h].pc = "log_signup"
SignupAnswered(h) == handlers[h].pc = "signup" /\ handlers'[h].pc = "done"
CountersOf(h) ==
    [attempts |-> handlers[h].rateLimitCheck.attempts,
     max_attempts |-> handlers[h].rateLimitCheck.max_attempts]
UserSignup(h) ==
    [event_type |-> "user_signup",
     user_id |-> handlers[h].user,
     identifier |-> handlers[h].email,
     details |-> [ip |-> handlers[h].clientIP,
                  has_phone |-> handlers[h].phoneNumber # <<>>,
                  timezone |-> IF handlers[h].timezone # ""
                               THEN handlers[h].timezone ELSE "UTC"],
     severity |-> "low"]

\* C17: sign-up creates the account with phone number and timezone as
\* metadata; a user_signup event of severity low is inserted exactly when the
\* provider returned a user; the 200 answer carries the account and the
\* attempts and max_attempts the rate limiter returned for this request
C17_SignupCreatesAndLogs ==
    /\ [](\A h \in Handlers :
            (handlers[h].action = "signup" /\ handlers[h].pc = "done"
                /\ handlers[h].resp.status = 200) =>
               /\ handlers[h].resp.body.data.user = handlers[h].user
               /\ handlers[h].resp.body.rate_limit = CountersOf(h)
               /\ handlers[h].rateLimitCheck.allowed
               /\ handlers[h].user # <<>> <=>
                     handlers[h].calls = <<"rpc:check_rate_limit", "auth.signUp",
                                           "insert:security_events">>
               /\ handlers[h].user = <<>> <=>
                     handlers[h].calls = <<"rpc:check_rate_limit", "auth.signUp">>)
    /\ [][\A h \in Handlers :
            /\ AccountCreated(h) =>
                  /\ auth_users' = auth_users \cup
                        {[email |-> handlers[h].email,
                          data |-> [phone_number |-> handlers[h].phoneNumber,
                                    timezone |-> handlers[h].timezone]]}
                  /\ handlers'[h].user = handlers[h].email
                  /\ security_events' = security_events
            /\ SignupAnswered(h) =>
                  auth_users' = auth_users /\ security_events' = security_events
            /\ LoggedSignup(h) =>
                  /\ auth_users' = auth_users
                  /\ \/ security_events' = security_events
                     \/ security_events' = Append(security_events, UserSignup(h))]_vars

\* an account with a phone number was created, logged and answered
C17_Witness ==
    \E h \in Handlers :
        /\ handlers[h].pc = "done" /\ handlers[h].action = "signup"
        /\ handlers[h].resp.status = 200
        /\ handlers[h].phoneNumber # <<>>
        /\ handlers[h].timezone # ""
        /\ \E u \in auth_users :
              u.email = handlers[h].email /\ u.data.phone_number = handlers[h].phoneNumber
        /\ Len(security_events) = 1
        /\ security_events[1].event_type = "user_signup"
        /\ security_events[1].severity = "low"

ProviderRejected(h) == SignupAnswered(h) /\ handlers'[h].signUpError # ""

\* C18: when the provider rejects the sign-up the answer is 400 with the
\* provider's message, no event is inserted, and the attempt the rate
\* limiter counted for the request stays counted
C18_ProviderErrorPassedThrough ==
    /\ [](\A h \in Handlers :
            handlers[h].signUpError # "" =>
               /\ handlers[h].resp = ErrorResponse(400, handlers[h].signUpError)
               /\ handlers[h].calls = <<"rpc:check_rate_limit", "auth.signUp">>
               /\ rate_limits[RateLimitKey(h)].attempts >= 1)
    /\ [][\A h \in Handlers :
            ProviderRejected(h) =>
               /\ handlers'[h].signUpError \in ProviderMessages
               /\ security_events' = security_events
               /\ auth_users' = auth_users
               /\ rate_limits' = rate_limits
               /\ rate_limits[RateLimitKey(h)].attempts >=
                     handlers[h].rateLimitCheck.attempts]_vars

C18_Witness ==
    \E h \in Handlers :
        /\ handlers[h].pc = "done"
        /\ handlers[h].signUpError = MsgSignupsDisabled
        /\ handlers[h].resp = ErrorResponse(400, MsgSignupsDisabled)
        /\ rate_limits[RateLimitKey(h)].attempts = 2

\* C19: an exception in the handler after the request was parsed is answered
\* 500 with the body {error: "Internal server error"} and nothing else, and
\* only an exception is answered 500
C19_GenericInternalError ==
    /\ [](\A h \in Handlers :
            /\ handlers[h].caught # "" <=> handlers[h].resp.status = 500
            /\ handlers[h].resp.status = 500 =>
                  /\ handlers[h].pc = "done"
                  /\ handlers[h].resp.body = [error |-> MsgInternal]
                  /\ handlers[h].resp.body.error # handlers[h].caught)
    /\ [][\A h \in Handlers :
            (handlers[h].pc \in {"rate_limit", "signup"}
                /\ handlers'[h].caught # "") =>
               /\ handlers'[h].caught \in Exceptions
               /\ handlers'[h].resp = ErrorResponse(500, MsgInternal)]_vars

\* the sign-up call threw and the answer is the generic 500
C19_Witness ==
    \E h \in Handlers :
        /\ handlers[h].pc = "done"
        /\ handlers[h].caught = "fetch failed"
        /\ handlers[h].calls = <<"rpc:check_rate_limit", "auth.signUp">>
        /\ handlers[h].resp = ErrorResponse(500, MsgInternal)

----------------------------------------------------------------------------
(* Claims about the client's failure tracking *)

TrackingCalls ==
    {i \in 1..Len(signin.calls) : signin.calls[i] = "invoke:track-login-failure"}

\* C20: after a credential failure signIn returns the provider's error
\* whatever the outcome of the tracking call, which is made once, only after
\* a credential failure, and never after a gateway rejection or a sign-in
\* that succeeded
C20_TrackingIsBestEffort ==
    /\ [](/\ Cardinality(TrackingCalls) <= 1
          /\ TrackingCalls # {} =>
                /\ signin.calls = <<"invoke:secure-auth", "auth.signInWithPassword",
                                    "invoke:track-login-failure">>
                /\ signin.authError \in AuthErrors
                /\ GatewayAcknowledged
          /\ signin.authError # "" => TrackingCalls # {}
          /\ (signin.pc = "done" /\ signin.authError # "") =>
                signin.result = SignInResult(NoSession, signin.authError)
          /\ (signin.pc = "done" /\ signin.result.error = "") =>
                TrackingCalls = {} /\ signin.tracking = "")
    /\ [][signin.pc = "track" =>
             /\ signin'.pc \in {"track", "done"}
             /\ signin'.calls = signin.calls
             /\ signin'.authError = signin.authError]_vars

\* the tracking call was rejected and signIn returned the provider's error
C20_Witness ==
    /\ signin.pc = "done"
    /\ signin.tracking = "rejects"
    /\ signin.authError = "Email not confirmed"
    /\ signin.result.error = "Email not confirmed"

----------------------------------------------------------------------------
(* Claims about the sign-up form *)

CallsOf(me, call) == Cardinality({i \in 1..Len(me.calls) : me.calls[i] = call})
LoggedTypes(me) == [i \in 1..Len(me.logged) |-> me.logged[i].event_type]
GatewayReportedSuccess == form.data # NoData

\* C21: once the gateway has reported a successful sign-up, handleSignUp ends
\* with onSignUpSuccess invoked, the success toast and no failure reported,
\* whatever the sms_consents insert and the send-signup-confirmation call
\* did (data, an error, an exception); each of the two is called at most
\* once, and exactly once when the gateway returned a user.
C21_SignupSurvivesFollowUps ==
    GatewayReportedSuccess =>
        /\ form.pc \in {"consent", "confirmation", "done"}
        /\ form.error = ""
        /\ \A i \in 1..Len(form.logged) : form.logged[i].event_type # "failed_signup"
        /\ CallsOf(form, "insert:sms_consents") <= 1
        /\ CallsOf(form, "invoke:send-signup-confirmation") <= 1
        /\ form.pc = "done" =>
              /\ CallsOf(form, "onSignUpSuccess") = 1
              /\ form.success = form.formattedPhone
              /\ form.toast = "Account created!"
              /\ ~signup_loading
              /\ form.data.user # <<>> =>
                    /\ form.consent \in CallOutcomes
                    /\ form.confirmation \in CallOutcomes
                    /\ CallsOf(form, "insert:sms_consents") = 1
                    /\ CallsOf(form, "invoke:send-signup-confirmation") = 1

C21_Witness ==
    /\ form.pc = "done"
    /\ form.data # NoData
    /\ form.data.user # <<>>
    /\ form.consent = "throws"
    /\ form.confirmation = "error"
    /\ form.success = form.formattedPhone
    /\ sms_consents = {}

ChecksPassedUpTo(in, n) ==
    /\ n >= 1 => in.validToken
    /\ n >= 2 => in.withinRateLimit
    /\ n >= 3 => in.email # <<>>
    /\ n >= 4 => in.phoneNumber # <<>>
    /\ n >= 5 => in.smsConsent
    /\ n >= 6 => ~in.suspicious

Aborted == form.pc \in {"log_failed", "done"} /\ CallsOf(form, "signUp") = 0

\* C30: the form calls signUp only when the token is valid, the client rate
\* limit is not exceeded, email and phone are present, consent is given, the
\* input is not suspicious and the phone formats to +1 and ten digits; the
\* checks fail in that order; a submission that fails a check never calls
\* signUp, creates no account and logs failed_signup (severity low), after
\* suspicious_signup_attempt (severity high) when the input was flagged; the
\* loading flag is true while the handler runs and false once it has ended.
C30_ChecksBeforeGateway ==
    /\ [](/\ CallsOf(form, "signUp") <= 1
          /\ CallsOf(form, "signUp") = 1 =>
                /\ ChecksPassedUpTo(form.in, 6)
                /\ form.formattedPhone # NullPhone
                /\ Len(form.formattedPhone) = 12
                /\ DigitsOf(form.formattedPhone) = <<"1">> \o Tail(Tail(form.formattedPhone))
          /\ Aborted =>
                /\ form.error = MsgCsrf <=> ~form.in.validToken
                /\ form.error = MsgClientRateLimit <=>
                      ChecksPassedUpTo(form.in, 1) /\ ~form.in.withinRateLimit
                /\ form.error = MsgEmailRequired <=>
                      ChecksPassedUpTo(form.in, 2) /\ form.in.email = <<>>
                /\ form.error = MsgPhoneRequired <=>
                      ChecksPassedUpTo(form.in, 3) /\ form.in.phoneNumber = <<>>
                /\ form.error = MsgConsentRequired <=>
                      ChecksPassedUpTo(form.in, 4) /\ ~form.in.smsConsent
                /\ form.error \in {MsgSuspicious, "logSecurityEvent failed"} <=>
                      ChecksPassedUpTo(form.in, 5) /\ form.in.suspicious
                /\ form.error = MsgPhoneFormat <=> ChecksPassedUpTo(form.in, 6)
                /\ LoggedTypes(form) =
                      IF ChecksPassedUpTo(form.in, 5) /\ form.in.suspicious
                      THEN <<"suspicious_signup_attempt", "failed_signup">>
                      ELSE <<"failed_signup">>
                /\ form.logged[Len(form.logged)].severity = "low"
                /\ Len(form.logged) = 2 => form.logged[1].severity = "high"
          /\ form.pc = "log_suspicious" =>
                /\ LoggedTypes(form) = <<"suspicious_signup_attempt">>
                /\ form.logged[1].severity = "high"
          /\ form.pc \in {"idle", "done"} <=> ~signup_loading)
    /\ [][/\ auth_users' # auth_users => form.pc = "signUp"
          /\ form.pc # "idle" /\ CallsOf(form, "signUp") = 0 /\ form'.pc # "idle" =>
                CallsOf(form', "signUp") = 0]_vars

C30_Witness ==
    /\ form.pc = "done"
    /\ Aborted
    /\ form.in.suspicious
    /\ form.error = MsgSuspicious
    /\ Len(form.logged) = 2
    /\ auth_users = {}
    /\ ~signup_loading

----------------------------------------------------------------------------
(* Claims about updateJournalEntry *)

CallsNamed(w, call) == SelectSeq(w.calls, LAMBDA c : c.call = call)
Parsable(listed) == SelectSeq(listed, LAMBDA photoUrl : photoUrl # Unparsable)
LoopFinished ==
    /\ writer.op = "update"
    /\ \/ writer.pc \in {"upload", "done"}
       \/ writer.pc = "failed" /\ writer.error = "upload"
AttemptedRemoval(w) == \A c \in {w.calls[i] : i \in 1..Len(w.calls)} :
    /\ (c.call = "storage.remove" /\ c.outcome = "ok") =>
           PhotoPath(w.userId, w.id, c.fileName) \notin storage
    /\ (c.call = "journal_photos.delete" /\ c.outcome = "ok") =>
           PhotoRef(w.id, c.fileName) \notin journal_photos

\* C22: in an updateJournalEntry call whose update query succeeded, every
\* listed photo with a parsable URL has its storage removal attempted once,
\* in the order listed, and its reference deletion attempted unless the
\* storage call threw, whatever the calls for the other photos did; after
\* the loop the new photos are handed to the upload; the call never fails
\* because of a removal.
C22_PhotoRemovalsIndependent ==
    /\ LoopFinished =>
          LET removals == CallsNamed(writer, "storage.remove")
              deletions == CallsNamed(writer, "journal_photos.delete")
              reached == SelectSeq(removals, LAMBDA c : c.outcome # "throws")
          IN  /\ [i \in 1..Len(removals) |-> PhotoUrl(removals[i].fileName)] =
                    Parsable(writer.listed)
              /\ [i \in 1..Len(deletions) |-> deletions[i].fileName] =
                    [i \in 1..Len(reached) |-> reached[i].fileName]
              /\ writer.removedPhotos = <<>>
              /\ writer.pc = "upload" => AttemptedRemoval(writer)
              /\ writer.pc = "upload" =>
                    writer.photos # <<>> /\ CallsNamed(writer, "uploadPhotos") = <<>>
              /\ (writer.pc = "done" /\ writer.photos # <<>>) =>
                    /\ Len(CallsNamed(writer, "uploadPhotos")) = 1
                    /\ writer.calls[Len(writer.calls)].call = "uploadPhotos"
              /\ (writer.pc = "done" /\ writer.photos = <<>>) => AttemptedRemoval(writer)
    /\ (writer.op = "update" /\ writer.pc = "failed") =>
          writer.error \in {"validation", "update", "upload"}

C22_Witness ==
    /\ writer.op = "update"
    /\ writer.pc = "done"
    /\ writer.userId = "u1"
    /\ writer.listed = <<PhotoUrl("p1"), PhotoUrl("p2")>>
    /\ Len(writer.calls) = 5
    /\ writer.calls[1] = PhotoCall("storage.remove", "p1", "error")
    /\ writer.calls[2] = PhotoCall("journal_photos.delete", "p1", "error")
    /\ writer.calls[3] = PhotoCall("storage.remove", "p2", "ok")
    /\ writer.calls[4] = PhotoCall("journal_photos.delete", "p2", "ok")
    /\ writer.calls[5].call = "uploadPhotos"
    /\ PhotoRef(1, "p2") \notin journal_photos
    /\ PhotoRef(1, "p1") \in journal_photos

UpdateApplied == writer.pc = "update" /\ writer'.pc \notin {"update", "failed"}

\* C24: no step of updateJournalEntry changes the entry_date, title, source,
\* owner, id or creation timestamp of any entry, and the entry_date stays the
\* one createJournalEntry stored; the update query gives the matching entry
\* the encrypted trimmed content and, when tags were given, exactly the
\* validated tags, otherwise the tags it had; every other step and every
\* other entry is left as it was.
C24_UpdateFrame ==
    /\ [](/\ Len(journal_entries) = 1
          /\ journal_entries[1].entry_date = CreatedEntry.entry_date)
    /\ [][\A i \in 1..Len(journal_entries) :
             LET old == journal_entries[i]
                 new == journal_entries'[i]
             IN  /\ new.entry_date = old.entry_date
                 /\ new.title = old.title
                 /\ new.source = old.source
                 /\ new.user_id = old.user_id
                 /\ new.id = old.id
                 /\ new.created_at = old.created_at
                 /\ IF UpdateApplied /\ old.id = writer.id /\ old.user_id = writer.userId
                    THEN /\ new.content = encrypt(Trim(writer.content), writer.userId)
                         /\ new.tags = IF "tags" \in DOMAIN writer.updateData
                                       THEN writer.updateData.tags ELSE old.tags
                    ELSE new = old]_vars

C24_Witness ==
    /\ writer.op = "update"
    /\ writer.pc = "done"
    /\ "tags" \in DOMAIN writer.updateData
    /\ journal_entries[1].tags = <<"b", "c">>
    /\ journal_entries[1].content = encrypt(<<"y", "o">>, "u1")
    /\ journal_entries[1].title = CreatedEntry.title
    /\ journal_entries[1].entry_date = CreatedEntry.entry_date

----------------------------------------------------------------------------
(* Further claims about the gateway *)

MaxOfEndpoint(endpoint) ==
    IF endpoint = "auth_signin" THEN SigninMaxAttempts ELSE SignupMaxAttempts
InWindow(row) == row.attempts > 0 /\ now < row.window_start + WindowMinutes

\* C23: a rate-limit record whose attempts exceed its endpoint's maximum while
\* its window is running is blocked: blocked_until is set, is the end of the
\* window and is not before now, and a check made now answers allowed =
\* false; every answer of the limiter with attempts above the maximum is
\* allowed = false with blocked_until set.
C23_OverLimitIsBlocked ==
    /\ \A key \in Keys :
          LET row == rate_limits[key]
              max == MaxOfEndpoint(key[2])
          IN  (row.attempts > max /\ InWindow(row)) =>
                 /\ row.blocked_until # None
                 /\ row.blocked_until = row.window_start + WindowMinutes
                 /\ row.blocked_until >= now
                 /\ ~check_rate_limit(row, now, max, WindowMinutes).allowed
    /\ \A h \in Handlers :
          LET res == handlers[h].rateLimitCheck
          IN  res.attempts > res.max_attempts =>
                 ~res.allowed /\ res.blocked_until # None

C23_Witness ==
    \E key \in Keys :
        /\ rate_limits[key].attempts > MaxOfEndpoint(key[2])
        /\ InWindow(rate_limits[key])
        /\ rate_limits[key].blocked_until > now
        /\ now > rate_limits[key].window_start
        /\ handlers[1].pc = "done"
        /\ handlers[1].resp.status = 429

LimiterUnavailable(me) ==
    me.caught # "" /\ me.calls = <<"rpc:check_rate_limit">>

\* C26: when the check_rate_limit call gives no result (data null, or an
\* exception) the request is answered 500 with the generic body, nothing is
\* counted, logged or created on that step, and no request is acknowledged
\* (validation_passed, or a 200 of any kind) and no auth.signUp call is made
\* unless the limiter answered allowed = true for that request.
C26_FailClosed ==
    /\ [](\A h \in Handlers :
             LET me == handlers[h]
             IN  /\ LimiterUnavailable(me) =>
                       /\ me.pc = "done"
                       /\ me.resp = ErrorResponse(500, MsgInternal)
                       /\ ~me.rateLimitCheck.allowed
                 /\ (me.pc = "done" /\ me.resp.status = 200) =>
                       me.rateLimitCheck.allowed /\ me.caught = ""
                 /\ (\E i \in 1..Len(me.calls) :
                        me.calls[i] \in {"auth.signUp", "select:account_lockouts"}) =>
                       me.rateLimitCheck.allowed)
    /\ [][\A h \in Handlers :
             (handlers[h].pc = "rate_limit" /\ handlers'[h].pc # "rate_limit"
                 /\ ~handlers'[h].rateLimitCheck.allowed
                 /\ handlers'[h].pc # "log_rate_limit") =>
                /\ LimiterUnavailable(handlers'[h])
                /\ UNCHANGED <<rate_limits, security_events, auth_users,
                               account_lockouts>>]_vars

C26_Witness ==
    \E h \in Handlers :
        /\ handlers[h].pc = "done"
        /\ handlers[h].action = "signup"
        /\ handlers[h].caught = "fetch failed"
        /\ handlers[h].calls = <<"rpc:check_rate_limit">>
        /\ handlers[h].resp = ErrorResponse(500, MsgInternal)
        /\ auth_users = {}

ValidationMessages ==
    {MsgInvalidJson, MsgInvalidAction, MsgInvalidEmail, MsgPasswordRequired,
     MsgWeakPassword, MsgInvalidPhone}
Malformed(me) ==
    \/ me.action \notin {"signin", "signup"}
    \/ me.email = <<>> \/ ~validateEmail(me.email)
    \/ me.password = <<>>
    \/ me.action = "signup" /\ ~validatePassword(me.password)
    \/ me.phoneNumber # <<>> /\ ~validatePhoneNumber(me.phoneNumber)

\* C27: the step that receives a request whose body does not parse or whose
\* action, email, password or phone number is not valid answers it at once
\* with status 400 and leaves rate_limits, account_lockouts, security_events
\* and the provider's accounts unchanged; a handler that answered with a
\* validation message has made no call at all (no rate-limit check, no
\* lockout lookup, no event insert, no provider call).
C27_RejectionHasNoEffect ==
    /\ [](\A h \in Handlers :
             LET me == handlers[h]
             IN  (me.pc # "idle" /\ (Malformed(me) \/
                     me.resp = ErrorResponse(400, MsgInvalidJson))) =>
                    /\ me.pc = "done"
                    /\ me.resp.status = 400
                    /\ me.resp.body.error \in ValidationMessages
                    /\ me.calls = <<>>
                    /\ me.rateLimitCheck = NullCheck
                    /\ me.lockoutData = None)
    /\ [][\A h \in Handlers :
             (handlers[h].pc = "idle" /\ handlers'[h].pc = "done") =>
                /\ handlers'[h].resp.status = 400
                /\ handlers'[h].resp.body.error \in ValidationMessages
                /\ UNCHANGED <<rate_limits, account_lockouts, security_events,
                               auth_users>>]_vars

C27_Witness ==
    \E h \in Handlers :
        /\ handlers[h].pc = "done"
        /\ handlers[h].action = "signup"
        /\ handlers[h].email = GoodEmail
        /\ handlers[h].password = StrongPassword
        /\ handlers[h].phoneNumber = BadPhone
        /\ handlers[h].resp = ErrorResponse(400, MsgInvalidPhone)
        /\ handlers[h].calls = <<>>
        /\ \E key \in Keys : rate_limits[key].attempts > 0

----------------------------------------------------------------------------
(* Further claims about useAuth *)

FetchSettles == fetch.pc = "resolved" /\ fetch'.pc = "settled"
InSync == session = idp_session /\ user = session.user

\* C25: when the initial session fetch settles while the local state holds
\* the provider's current session, installed by a notification after the
\* fetch had observed no session or an error, the session is kept; and when
\* it settles after the provider's session has ended and the local state
\* been cleared, it does not install the session it had observed.
C25_FetchKeepsLatestSession ==
    [][(FetchSettles /\ mounted /\ InSync) =>
          /\ session' = idp_session
          /\ user' = idp_session.user]_vars

OtherEvents == AuthEvents \ {"SIGNED_OUT", "SIGNED_IN", "TOKEN_REFRESHED"}

\* C28: user is non-null exactly when session is, and then user is the
\* session's user; every step changes the two together; a notification of
\* another event than SIGNED_OUT, SIGNED_IN, TOKEN_REFRESHED that carries a
\* session would leave user, session and loading as they are.
C28_UserIffSession ==
    /\ [](/\ user # "" <=> session # NoSession
          /\ user = session.user
          /\ \A event \in OtherEvents : \A s \in {idp_session, SessionOf(1), SessionOf(2)} :
                s # NoSession =>
                   AuthStateChanged(CurrentAuthState, mounted, event, s) =
                      CurrentAuthState)
    /\ [][/\ (user' = "") = (session' = NoSession)
          /\ (user' # user) => (session' # session)
          /\ (session' # session) => (user' # user \/ session.user = session'.user)]_vars

\* the provider holds a session the hook does not show, while loading
C28_Witness ==
    /\ mounted
    /\ loading
    /\ user = ""
    /\ session = NoSession
    /\ idp_session # NoSession
    /\ fetch.pc = "resolved"
    /\ fetch.session = NoSession

\* C29: the settling of the initial session fetch in a mounted hook sets
\* loading to false, whatever the fetch gave; no step sets loading back to
\* true; ProtectedRoute renders its children exactly when loading is false
\* and user and session are non-null; once getSession has settled, loading
\* eventually is false unless the hook is unmounted.
C29_LoadingSettles ==
    /\ [](/\ ProtectedRoute(user, session, loading) = "children" <=>
                (~loading /\ user # "" /\ session # NoSession)
          /\ (fetch.pc = "settled" /\ loading) => ~mounted)
    /\ [][/\ (FetchSettles /\ mounted) => ~loading'
          /\ ~loading => ~loading']_vars
    /\ (fetch.pc = "resolved") ~> (~loading \/ ~mounted)

C29_Witness ==
    /\ mounted
    /\ fetch.pc = "settled"
    /\ fetch.kind = "throws"
    /\ ~loading
    /\ user = ""
    /\ idp_session # NoSession
    /\ ProtectedRoute(user, session, loading) = "null"

====
